---- MODULE Spec2Model ----
(***************************************************************************)
(* PyQuadZ: the GSIOC bus protocol engine (serialqueue.py, class           *)
(* SerialQueue) with its caller threads.  One worker thread (run) owns the  *)
(* serial transport; caller threads use register_device,                    *)
(* add_immediate_instruction, add_buffered_instruction and                  *)
(* QuadZDevice.wait_for_buffered.  A step of a thread is one access to a    *)
(* shared field or one threading.Event operation, together with the code    *)
(* local to the thread that follows it: local computation and the           *)
(* transport writes and reads (device.write / device.read keep no state     *)
(* that another thread of the model reads).                                 *)
(***************************************************************************)
EXTENDS Integers, Sequences, FiniteSets, TLC

(***************************************************************************)
(* Program constants                                                       *)
(***************************************************************************)
max_string_size == 32
max_null_count == 5
max_retries == 10
ACK == 6
LF == 10
CR == 13
DISCONNECT_BYTE == 255
HIGH_BIT == 128

\* chr(device_id + 128): the address byte of a device
DeviceByte(device_id) == device_id + HIGH_BIT

\* ASCII codes of the command and status characters used by the engine
CH_S == 83
CH_BAR == 124
CH_ZERO == 48
CH_PERCENT == 37
CH_H == 72
CH_A == 65
CH_B == 66
CH_D == 68
CH_L == 76
CH_R == 82
CH_DOT == 46
CH_I == 73
CH_X == 88
CH_SLASH == 47
CH_LOWER_A == 97
CH_O == 79
CH_Z == 90
CH_M == 77
CH_N == 78
CH_F == 70
CH_P == 80

\* the commands submitted by the callers: get_version's '%' (immediate)
\* and home's 'SH' (buffered)
VersionCommand == <<CH_PERCENT>>
HomeCommand == <<CH_S, CH_H>>

\* device.read(1) returning '' (timeout), and connected_device = None
EMPTY == 0 - 1
NONE == 0 - 1

(***************************************************************************)
(* Bounds of the model                                                     *)
(***************************************************************************)
\* instructions submitted after set-up (immediate and buffered together)
MaxInstr == 2
\* register_device calls during set-up, and instructions submitted meanwhile
MaxReg == 2
MaxSetupInstr == 1
\* data bytes a device sends before the terminating byte of a response
MaxData == 1
\* immediate instructions of the immediate-only system, and the data bytes a
\* device may send there: one more than max_string_size
MaxImmediate == 2
MaxResponseData == 33
\* calls of QuadZDevice.pump, and the probes in its list of volumes
MaxPumpCalls == 1
MaxProbes == 2
\* calls of QuadZDevice.initialize_syringe
MaxSyringeCalls == 1
\* calls of QuadZDevice.move_to, and the rounds of its polling loop in units
\* of the polling interval of 0.05 s
MaxMoveCalls == 1
MaxSleepTicks == 3
MaxProbeTicks == 11
MaxStateCalls == 2

Worker == "worker"
Callers == {"c1", "c2"}
SetupThread == "c1"
Threads == {Worker} \cup Callers
\* the liquid handler (22) and a 402 syringe pump (0)
Addresses == {0, 22}
\* the wait argument add_buffered_instruction is given for a device: the default
\* 'handler' or QuadZDevice.buffered's True for the liquid handler, 'pump' for
\* a syringe pump
WaitsOf(device_id) == IF device_id = 22 THEN {"handler", "true"} ELSE {"pump"}

VARIABLES
    event_instruction,        \* threading.Event: an instruction is waiting
    event_lock,               \* threading.Event: worker is not sending
    event_buffer_lock,        \* threading.Event: no registration in progress
    event_buffered,           \* threading.Event: waited on by wait_for_buffered
    event_immediate_response, \* threading.Event: immediate response is ready
    queue_instructions,       \* Queue.Queue of buffered instructions
    immediate_instruction,    \* next immediate instruction or False
    immediate_response,       \* response of the immediate instruction or False
    last_exception,           \* last exception caught in the worker
    registered_devices,       \* list of registered device ids
    connected_device,         \* device id the bus is connected to, or None
    syringe,                  \* QuadZDevice.syringe: per-probe pump state
    pc,                       \* position of every thread
    est,                      \* locals of establish_connection, per thread
    w,                        \* locals of the worker (run and the send_* it calls)
    c,                        \* locals of the caller threads
    next_id,                  \* history: number of instructions submitted
    quota,                    \* calls the caller threads may still make
    wire_owner,               \* history: instruction whose bytes were last on the wire
    wire_closed,              \* history: instructions followed by another one on the wire
    handshaken,               \* history: addresses whose address byte was echoed
    enqueued,                 \* history: the buffered instructions, in put order
    finished                  \* history: ids of buffered instructions transmitted or failed

events == <<event_instruction, event_lock, event_buffer_lock, event_buffered,
            event_immediate_response>>
shared == <<queue_instructions, immediate_instruction, immediate_response,
            last_exception, registered_devices, connected_device, syringe>>
locals == <<pc, est, w, c>>
history == <<next_id, quota, wire_owner, wire_closed, handshaken, enqueued,
             finished>>
vars == <<events, shared, locals, history>>

(***************************************************************************)
(* Values                                                                  *)
(***************************************************************************)
\* immediate_instruction = False / immediate_response = False / last_exception = False
NoInstruction == [id |-> 0, dev |-> NONE, ins |-> <<>>, wait |-> "none"]
NoResponse == [set |-> FALSE, val |-> <<>>]
NoException == [kind |-> "none", dev |-> NONE]

Response(r) == [set |-> TRUE, val |-> r]
Exc(kind, dev) == [kind |-> kind, dev |-> dev]

EstInit == [dev |-> NONE, i |-> 0, att |-> 0, echoed |-> FALSE, out |-> "none"]
\* reads, run, rx and acks are history: the get_byte calls of the current
\* send_immediate_instruction, the empty reads in a row at its end, the
\* non-empty bytes as they were received, and the ACK bytes written
WInit == [ctx |-> "none", cur |-> NoInstruction, count |-> 0, nulls |-> 0,
          resp |-> <<>>, k |-> 0, exc |-> "none",
          reads |-> 0, run |-> 0, rx |-> <<>>, acks |-> 0]
\* locals of QuadZDevice.pump: the argument, the loop index, the last volume
\* read, starting_vol, running, and the loop the call is in
NoPump == [volumes |-> <<>>, i |-> 0, vol |-> 0, starting_vol |-> <<>>,
           sets |-> 0, status |-> 0, running |-> FALSE, stage |-> "none"]
\* the arguments of initialize_syringe and the statuses its loop has read
NoSyringe == [probe_num |-> 0, both |-> FALSE, block |-> FALSE, status |-> 0,
              partner |-> 0]
\* the arguments and locals of move_to; sample and resample hold the position
\* read before and after the settling delay, queried that the loop has asked
\* the device for a position
NoSample == [probe_x |-> <<>>, Y |-> <<>>]
NoMove == [x |-> 0, y |-> 0, probe |-> 0, timeout |-> 0, sleep_counter |-> 0,
           sample |-> NoSample, resample |-> NoSample, queried |-> FALSE]
\* the locals of QuadZDevice.move_probe
NoProbeMove == [z |-> 0, probes |-> <<>>, liquid_sensing |-> FALSE,
                timeout |-> 0, compensated_z |-> 0, i |-> 0,
                sleep_counter |-> 0, z_positions |-> <<>>,
                new_z_positions |-> <<>>, failed_list |-> <<>>]
\* the arguments of a status query or a setter of the pump state, the response
\* a query got from the device, and the value it returned
NoStatusResponse == [left |-> 0, lvol |-> <<>>, right |-> 0, rvol |-> <<>>]
NoQuery == [probe_num |-> 0, value |-> 0, both |-> FALSE,
            status_response |-> NoStatusResponse, valve_response |-> <<>>,
            result |-> <<>>]
\* base is history: the number of buffered instructions put on the queue
\* before the call
CInit == [op |-> "none", dev |-> NONE, id |-> 0, wait |-> "none",
          response |-> NoResponse, ret |-> "none", p |-> NoPump,
          s |-> NoSyringe, m |-> NoMove, z |-> NoProbeMove, q |-> NoQuery,
          base |-> 0]

\* the probes, and the pump a probe belongs to once the pumps are added in
\* the order of example.py: add_402_syringe_pump(0, 1, 2) and (1, 3, 4)
Probes == 1..4
SyringeDevice(probe_num) == IF probe_num <= 2 THEN 0 ELSE 1

\* a number and a str held by the same dictionary key
IntValue(n) == [int |-> n]
StrValue(text) == [str |-> text]

\* QuadZDevice.__init__, lines 53-63: the entry of one probe; size stands for
\* the key 'size', which the dictionary does not have at first
syringe_default ==
    [device_id |-> NONE, side |-> "None", partner_probe |-> 0,
     syringe_size |-> 0, status |-> CH_I, current_volume |-> IntValue(0),
     valve_status |-> CH_N, motor_force |-> 3, flow_rate |-> 10,
     next_operation |-> 0, size |-> NONE]

\* add_402_syringe_pump, lines 633-641, for the probe pair of a pump: the odd
\* probe is its left side, the even probe its right side
Added(probe_num) ==
    [syringe_default EXCEPT
        !.device_id = SyringeDevice(probe_num),
        !.side = IF probe_num % 2 = 0 THEN "right" ELSE "left",
        !.partner_probe = IF probe_num % 2 = 0 THEN probe_num - 1
                                               ELSE probe_num + 1]

\* self.syringe when the pumps among the given devices have been added
SyringeInit(devices) ==
    [probe_num \in Probes |->
        IF \E n \in 1..Len(devices) : devices[n] = SyringeDevice(probe_num)
        THEN Added(probe_num) ELSE syringe_default]

\* the state of a SerialQueue with the given registry, connection and quota,
\* its worker waiting for the first instruction and no call in progress
Start(devices, connected, echoed_by, calls) ==
    /\ event_instruction = FALSE
    /\ event_lock = TRUE
    /\ event_buffer_lock = TRUE
    /\ event_buffered = TRUE
    /\ event_immediate_response = FALSE
    /\ queue_instructions = <<>>
    /\ immediate_instruction = NoInstruction
    /\ immediate_response = NoResponse
    /\ last_exception = NoException
    /\ registered_devices = devices
    /\ syringe = SyringeInit(devices)
    /\ connected_device = connected
    /\ pc = [t \in Threads |-> IF t = Worker THEN "wait_instruction" ELSE "idle"]
    /\ est = [t \in Threads |-> EstInit]
    /\ w = WInit
    /\ c = [t \in Callers |-> CInit]
    /\ next_id = 0
    /\ quota = calls
    /\ wire_owner = 0
    /\ wire_closed = {}
    /\ handshaken = echoed_by
    /\ enqueued = <<>>
    /\ finished = {}

\* SerialQueue.__init__ followed by start(): nothing registered, nothing connected
Init == Start(<<>>, NONE, {},
              [instr |-> MaxSetupInstr, reg |-> MaxReg, data |-> MaxData,
               pump |-> 0,
     syringe |-> 0, move |-> 0])

\* after set-up as in example.py: initialize_device(22) and
\* add_402_syringe_pump(0, 1, 2) have registered both devices
InitOps == Start(<<22, 0>>, 0, {0, 22},
                 [instr |-> MaxInstr, reg |-> 0, data |-> MaxData, pump |-> 0,
     syringe |-> 0, move |-> 0])

\* the same set-up; one thread sends immediate instructions only, and the
\* devices may answer with responses longer than max_string_size
InitImmediate == Start(<<22, 0>>, 0, {0, 22},
                       [instr |-> MaxImmediate, reg |-> 0,
                        data |-> MaxResponseData, pump |-> 0,
     syringe |-> 0, move |-> 0])

\* the liquid handler 22 is connected and the pump devices 0 and 1 are
\* registered (example.py lines 30-31); one thread calls QuadZDevice.pump
InitPump == Start(<<22, 0, 1>>, 22, {0, 1, 22},
                  [instr |-> 0, reg |-> 0, data |-> MaxData,
                   pump |-> MaxPumpCalls,
     syringe |-> 0, move |-> 0])

\* the same set-up; one thread calls QuadZDevice.initialize_syringe
InitSyringe == Start(<<22, 0, 1>>, 22, {0, 1, 22},
                     [instr |-> 0, reg |-> 0, data |-> MaxData, pump |-> 0,
                      syringe |-> MaxSyringeCalls, move |-> 0])

\* the same set-up; one thread queries and sets the pump state
InitState == Start(<<22, 0, 1>>, 22, {0, 1, 22},
                   [instr |-> 0, reg |-> 0, data |-> MaxData, pump |-> 0,
                    syringe |-> MaxStateCalls, move |-> 0])

\* the same set-up; one thread calls QuadZDevice.move_to
InitMove == Start(<<22, 0, 1>>, 22, {0, 1, 22},
                  [instr |-> 0, reg |-> 0, data |-> MaxData, pump |-> 0,
                   syringe |-> 0, move |-> MaxMoveCalls])

(***************************************************************************)
(* The transport (device.write / device.read(1)): what a read may return   *)
(***************************************************************************)
\* the byte read back after the address byte: the echo, or nothing
ConnectReads(device_id) == {DeviceByte(device_id), EMPTY}
\* one byte of a response: nothing, a data byte, or a terminating byte
DecodeReads(resp) ==
    {EMPTY, CH_BAR + HIGH_BIT, CH_ZERO + HIGH_BIT}
        \cup (IF Len(resp) < quota.data THEN {CH_ZERO} ELSE {})
\* the byte read back after one byte of a buffered frame
EchoReads(char) == {char, EMPTY}

\* history: a byte of instruction id is written to or read from the wire
Wire(id) ==
    IF wire_owner = id
    THEN UNCHANGED <<wire_owner, wire_closed>>
    ELSE /\ wire_owner' = id
         /\ wire_closed' = IF wire_owner = 0 THEN wire_closed
                           ELSE wire_closed \cup {wire_owner}
WireBy(t) == IF t = Worker THEN Wire(w.cur.id)
             ELSE UNCHANGED <<wire_owner, wire_closed>>

(***************************************************************************)
(* establish_connection, disconnect, connect: run by the worker (for an    *)
(* instruction) and by a caller thread (inside register_device)            *)
(***************************************************************************)
EstCall(device_id) ==
    [dev |-> device_id, i |-> 0, att |-> 0, echoed |-> FALSE, out |-> "none"]

\* for i in range(max_retries): the loop is over after max_retries rounds
RetriesExhaustedLate(i) == i > max_retries
RetriesExhausted(i) == i >= max_retries

\* the buffer-status poll a buffered instruction needs before its frame
NeedsPoll(wait) == wait \in {"handler", "pump"}

\* the worker thread ended by an exception nothing catches
Dead(kind) == [WInit EXCEPT !.exc = kind]

\* where a thread continues when establish_connection returns or raises
EstReturnUncaught(t, out) ==
    IF t \in Callers
    THEN IF out = "DeviceNotRegistered" THEN "raised" ELSE "reg_return"
    ELSE IF out # "ok" THEN "dead"
         ELSE IF w.ctx = "imm" THEN "imm_send"
              ELSE IF NeedsPoll(w.cur.wait) THEN "poll_send" ELSE "buf_send"
EstReturn(t, out) ==
    IF t \in Callers
    THEN IF out = "DeviceNotRegistered" THEN "raised" ELSE "reg_return"
    ELSE IF out = "DeviceNotRegistered" THEN "dead"
         ELSE IF w.ctx = "imm"
              THEN IF out = "ok" THEN "imm_send" ELSE "imm_dnr_response"
              ELSE IF out = "ok"
                   THEN IF NeedsPoll(w.cur.wait) THEN "poll_send" ELSE "buf_send"
                   ELSE "buf_dnr"

EstLeave(t, out) ==
    /\ pc' = [pc EXCEPT ![t] = EstReturn(t, out)]
    /\ w' = IF t = Worker
            THEN IF out = "DeviceNotRegistered" THEN Dead(out)
                 ELSE [w EXCEPT !.k = 1]
            ELSE w

\* line 294: already connected to dev_id; otherwise the first round starts
Est_check(t) ==
    /\ pc[t] = "est_check"
    /\ IF connected_device = est[t].dev
       THEN /\ est' = [est EXCEPT ![t].out = "ok"]
            /\ EstLeave(t, "ok")
       ELSE IF RetriesExhausted(0)
            THEN /\ est' = [est EXCEPT ![t].out = "DeviceNotResponding"]
                 /\ EstLeave(t, "DeviceNotResponding")
            ELSE /\ pc' = [pc EXCEPT ![t] = "disconnect"]
                 /\ UNCHANGED <<est, w>>
    /\ UNCHANGED <<events, shared, c, history>>

\* disconnect, lines 246-251: send(chr(255)); connected_device = None
Disconnect(t) ==
    /\ pc[t] = "disconnect"
    /\ connected_device' = NONE
    /\ pc' = [pc EXCEPT ![t] = "connect"]
    /\ WireBy(t)
    /\ UNCHANGED <<events, queue_instructions, immediate_instruction,
                   immediate_response, last_exception, registered_devices, syringe,
                   est, w, c, next_id, quota, handshaken, enqueued, finished>>

\* device_id in self.registered_devices
IsRegistered(device_id) ==
    \E n \in 1..Len(registered_devices) : registered_devices[n] = device_id

\* connect, lines 210-225: the checks, send(device_byte), get_byte(); and the
\* except DeviceNotConnected / next round of establish_connection, lines 296-303
Connect(t) ==
    /\ pc[t] = "connect"
    /\ IF ~IsRegistered(est[t].dev)
       THEN /\ est' = [est EXCEPT ![t].out = "DeviceNotRegistered"]
            /\ EstLeave(t, "DeviceNotRegistered")
            /\ UNCHANGED <<wire_owner, wire_closed, handshaken>>
       ELSE IF connected_device = est[t].dev
            THEN /\ est' = [est EXCEPT ![t].out = "ok"]
                 /\ EstLeave(t, "ok")
                 /\ UNCHANGED <<wire_owner, wire_closed, handshaken>>
            ELSE /\ WireBy(t)
                 /\ \E b \in ConnectReads(est[t].dev) :
                      IF b # DeviceByte(est[t].dev)
                      THEN /\ handshaken' = handshaken
                           /\ IF RetriesExhausted(est[t].i + 1)
                              THEN /\ est' = [est EXCEPT
                                                ![t].i = @ + 1, ![t].att = @ + 1,
                                                ![t].echoed = FALSE,
                                                ![t].out = "DeviceNotResponding"]
                                   /\ EstLeave(t, "DeviceNotResponding")
                              ELSE /\ est' = [est EXCEPT
                                                ![t].i = @ + 1, ![t].att = @ + 1,
                                                ![t].echoed = FALSE]
                                   /\ pc' = [pc EXCEPT ![t] = "disconnect"]
                                   /\ w' = w
                      ELSE /\ handshaken' = handshaken \cup {est[t].dev}
                           /\ est' = [est EXCEPT ![t].att = @ + 1,
                                                 ![t].echoed = TRUE]
                           /\ pc' = [pc EXCEPT ![t] = "conn_set"]
                           /\ w' = w
    /\ UNCHANGED <<events, shared, c, next_id, quota, enqueued, finished>>

\* connect, lines 228-232: connected_device = device_id; return True
Conn_set(t) ==
    /\ pc[t] = "conn_set"
    /\ connected_device' = est[t].dev
    /\ est' = [est EXCEPT ![t].out = "ok"]
    /\ EstLeave(t, "ok")
    /\ UNCHANGED <<events, queue_instructions, immediate_instruction,
                   immediate_response, last_exception, registered_devices, syringe,
                   c, history>>

(***************************************************************************)
(* SerialQueue.run: the worker loop                                        *)
(***************************************************************************)
WStep(from, to) ==
    /\ pc[Worker] = from
    /\ pc' = [pc EXCEPT ![Worker] = to]

\* Queue.get(): the entry the worker takes, and what is left of the queue
QueueGet(q) == Head(q)
QueueRest(q) == Tail(q)

\* line 106: self.event_instruction.wait()
W_wait_instruction ==
    /\ WStep("wait_instruction", "wait_buffer_lock")
    /\ event_instruction
    /\ UNCHANGED <<events, shared, est, w, c, history>>

\* line 107: self.event_buffer_lock.wait()
W_wait_buffer_lock ==
    /\ WStep("wait_buffer_lock", "clear_lock")
    /\ event_buffer_lock
    /\ UNCHANGED <<events, shared, est, w, c, history>>

\* line 108: self.event_lock.clear()
W_clear_lock ==
    /\ WStep("clear_lock", "check_immediate")
    /\ event_lock' = FALSE
    /\ UNCHANGED <<event_instruction, event_buffer_lock, event_buffered,
                   event_immediate_response, shared, est, w, c, history>>

\* lines 110-117: an immediate instruction is pending; call establish_connection
W_check_immediate ==
    /\ pc[Worker] = "check_immediate"
    /\ IF immediate_instruction # NoInstruction
       THEN /\ w' = [WInit EXCEPT !.ctx = "imm", !.cur = immediate_instruction]
            /\ est' = [est EXCEPT ![Worker] = EstCall(immediate_instruction.dev)]
            /\ pc' = [pc EXCEPT ![Worker] = "est_check"]
       ELSE /\ pc' = [pc EXCEPT ![Worker] = "check_queue"]
            /\ UNCHANGED <<est, w>>
    /\ UNCHANGED <<events, shared, c, history>>

\* lines 125-127 and 399-406: send_immediate_instruction(self.immediate_instruction[1])
W_imm_send ==
    /\ WStep("imm_send", "decode")
    /\ w' = [w EXCEPT !.cur = immediate_instruction, !.count = 0, !.nulls = 0,
                      !.resp = <<>>]
    /\ est' = [est EXCEPT ![Worker] = EstInit]
    /\ Wire(immediate_instruction.id)
    /\ UNCHANGED <<events, shared, c, next_id, quota, handshaken,
                   enqueued, finished>>

\* (ord(response_char) >> 7) == 1
HighBitSet(b) == (b \div HIGH_BIT) = 1

\* line 425: response_char = chr(ord(response_char) - 128)
KeepHighBit(b) == b
ClearHighBit(b) == b - HIGH_BIT

\* lines 151-158: the reply to 'S' says the device buffer is ready
BufferReadyAlways(wait, r) == TRUE
BufferReady(wait, r) ==
    IF wait = "handler" THEN r = <<CH_BAR>> ELSE r[1] = CH_ZERO

\* where run continues when send_immediate_instruction returns r
DecodeReturn(r) ==
    IF w.ctx = "imm" THEN "imm_ok_response"
    ELSE IF BufferReady(w.cur.wait, r) THEN "buf_send" ELSE "poll_send"

\* lines 409-415: the two guards of the decoding loop
DecodeGuard(count, null_count) ==
    IF count > max_string_size THEN "size"
    ELSE IF null_count > max_null_count THEN "nulls" ELSE "go"

\* lines 417-418: if count > 0: self.send(self.ACK)
SendsAckAlways(count) == TRUE
SendsAck(count) == count > 0
AcksAfter(acks, count) == IF SendsAck(count) THEN acks + 1 ELSE acks

\* lines 407-434: one round of the decoding loop: the guards, the ACK from the
\* second round on, get_byte() and what is done with the byte
W_decode ==
    /\ pc[Worker] = "decode"
    /\ IF DecodeGuard(w.count, w.nulls) # "go"
       THEN /\ pc' = [pc EXCEPT ![Worker] =
                        IF w.ctx = "imm" THEN "imm_exc_response" ELSE "dead"]
            /\ w' = IF w.ctx = "imm"
                    THEN [w EXCEPT !.exc = "ResponseSizeError", !.run = 0]
                    ELSE Dead("ResponseSizeError")
            /\ UNCHANGED <<wire_owner, wire_closed>>
       ELSE /\ Wire(w.cur.id)
            /\ \E b \in DecodeReads(w.resp) :
                 IF b # EMPTY
                 THEN IF HighBitSet(b)
                      THEN /\ w' = IF w.ctx = "imm"
                                   THEN [w EXCEPT
                                           !.resp = Append(@, ClearHighBit(b)),
                                           !.reads = @ + 1, !.run = 0,
                                           !.rx = Append(@, b),
                                           !.acks = AcksAfter(@, w.count)]
                                   ELSE [w EXCEPT
                                           !.resp = Append(@, ClearHighBit(b)),
                                           !.count = 0, !.nulls = 0,
                                           !.reads = 0, !.run = 0, !.rx = <<>>,
                                           !.acks = 0]
                           /\ pc' = [pc EXCEPT ![Worker] =
                                        DecodeReturn(Append(w.resp, ClearHighBit(b)))]
                      ELSE /\ w' = [w EXCEPT !.resp = Append(@, b),
                                             !.count = @ + 1,
                                             !.reads = @ + 1, !.run = 0,
                                             !.rx = Append(@, b),
                                             !.acks = AcksAfter(@, w.count)]
                           /\ pc' = pc
                 ELSE /\ w' = [w EXCEPT !.nulls = @ + 1, !.count = @ + 1,
                                        !.reads = @ + 1, !.run = @ + 1,
                                        !.acks = AcksAfter(@, w.count)]
                      /\ pc' = pc
    /\ UNCHANGED <<events, shared, est, c, next_id, quota, handshaken,
                   enqueued, finished>>

\* line 134: self.immediate_response = r
W_imm_ok_response ==
    /\ WStep("imm_ok_response", "imm_ok_clear")
    /\ immediate_response' = Response(w.resp)
    /\ UNCHANGED <<events, queue_instructions, immediate_instruction,
                   last_exception, registered_devices, syringe, connected_device,
                   est, w, c, history>>

\* line 135: self.immediate_instruction = False
W_imm_ok_clear ==
    /\ WStep("imm_ok_clear", "imm_set_response")
    /\ immediate_instruction' = NoInstruction
    /\ UNCHANGED <<events, queue_instructions, immediate_response,
                   last_exception, registered_devices, syringe, connected_device,
                   est, w, c, history>>

\* line 130: except Exception: self.immediate_response = False
W_imm_exc_response ==
    /\ WStep("imm_exc_response", "imm_exc_clear")
    /\ immediate_response' = NoResponse
    /\ UNCHANGED <<events, queue_instructions, immediate_instruction,
                   last_exception, registered_devices, syringe, connected_device,
                   est, w, c, history>>

\* line 131: self.immediate_instruction = False
W_imm_exc_clear ==
    /\ WStep("imm_exc_clear", "imm_exc_last")
    /\ immediate_instruction' = NoInstruction
    /\ UNCHANGED <<events, queue_instructions, immediate_response,
                   last_exception, registered_devices, syringe, connected_device,
                   est, w, c, history>>

\* line 132: self.last_exception = e
W_imm_exc_last ==
    /\ WStep("imm_exc_last", "imm_set_response")
    /\ last_exception' = Exc(w.exc, w.cur.dev)
    /\ UNCHANGED <<events, queue_instructions, immediate_instruction,
                   immediate_response, registered_devices, syringe, connected_device,
                   est, w, c, history>>

\* line 136: self.event_immediate_response.set()
W_imm_set_response ==
    /\ WStep("imm_set_response", "check_queue")
    /\ event_immediate_response' = TRUE
    /\ w' = WInit
    /\ UNCHANGED <<event_instruction, event_lock, event_buffer_lock,
                   event_buffered, shared, est, c, history>>

\* line 119: except DeviceNotResponding: self.immediate_response = False
W_imm_dnr_response ==
    /\ WStep("imm_dnr_response", "imm_dnr_set")
    /\ immediate_response' = NoResponse
    /\ est' = [est EXCEPT ![Worker] = EstInit]
    /\ UNCHANGED <<events, queue_instructions, immediate_instruction,
                   last_exception, registered_devices, syringe, connected_device,
                   w, c, history>>

\* line 120: self.event_immediate_response.set()
W_imm_dnr_set ==
    /\ WStep("imm_dnr_set", "imm_dnr_clear")
    /\ event_immediate_response' = TRUE
    /\ UNCHANGED <<event_instruction, event_lock, event_buffer_lock,
                   event_buffered, shared, est, w, c, history>>

\* line 121: self.immediate_instruction = False
W_imm_dnr_keep ==
    /\ WStep("imm_dnr_clear", "imm_dnr_last")
    /\ UNCHANGED <<events, shared, est, w, c, history>>
W_imm_dnr_clear ==
    /\ WStep("imm_dnr_clear", "imm_dnr_last")
    /\ immediate_instruction' = NoInstruction
    /\ UNCHANGED <<events, queue_instructions, immediate_response,
                   last_exception, registered_devices, syringe, connected_device,
                   est, w, c, history>>

\* line 122: self.last_exception = e
W_imm_dnr_last ==
    /\ WStep("imm_dnr_last", "check_queue")
    /\ last_exception' = Exc("DeviceNotResponding", w.cur.dev)
    /\ w' = WInit
    /\ UNCHANGED <<events, queue_instructions, immediate_instruction,
                   immediate_response, registered_devices, syringe, connected_device,
                   est, c, history>>

\* lines 141-148 and 167: take the next buffered instruction, if there is one
W_check_queue ==
    /\ pc[Worker] = "check_queue"
    /\ IF queue_instructions # <<>>
       THEN /\ w' = [WInit EXCEPT !.ctx = "buf",
                                  !.cur = QueueGet(queue_instructions)]
            /\ queue_instructions' = QueueRest(queue_instructions)
            /\ est' = [est EXCEPT ![Worker] =
                          EstCall(QueueGet(queue_instructions).dev)]
            /\ pc' = [pc EXCEPT ![Worker] = "est_check"]
       ELSE /\ pc' = [pc EXCEPT ![Worker] = "check_idle"]
            /\ UNCHANGED <<queue_instructions, est, w>>
    /\ UNCHANGED <<events, immediate_instruction, immediate_response,
                   last_exception, registered_devices, syringe, connected_device,
                   c, history>>

\* line 167: elif self.immediate_instruction == False
W_check_idle ==
    /\ pc[Worker] = "check_idle"
    /\ pc' = [pc EXCEPT ![Worker] =
                 IF immediate_instruction = NoInstruction
                 THEN "clear_instruction" ELSE "set_lock"]
    /\ UNCHANGED <<events, shared, est, w, c, history>>

\* line 168: self.event_instruction.clear()
W_clear_instruction ==
    /\ WStep("clear_instruction", "set_lock")
    /\ event_instruction' = FALSE
    /\ UNCHANGED <<event_lock, event_buffer_lock, event_buffered,
                   event_immediate_response, shared, est, w, c, history>>

\* lines 152/156 and 399-406: send_immediate_instruction('S')
W_poll_send ==
    /\ WStep("poll_send", "decode")
    /\ w' = [w EXCEPT !.count = 0, !.nulls = 0, !.resp = <<>>]
    /\ est' = [est EXCEPT ![Worker] = EstInit]
    /\ Wire(w.cur.id)
    /\ UNCHANGED <<events, shared, c, next_id, quota, handshaken,
                   enqueued, finished>>

\* line 373: command = self.LF + instruction + self.CR
Frame(instruction) == <<LF>> \o instruction \o <<CR>>

\* lines 379-386: one round of the loop: send(char), get_byte(), compare
W_buf_send ==
    /\ pc[Worker] = "buf_send"
    /\ \E b \in EchoReads(Frame(w.cur.ins)[w.k]) :
         IF b # Frame(w.cur.ins)[w.k]
         THEN /\ pc' = [pc EXCEPT ![Worker] = "buf_mismatch"]
              /\ w' = [w EXCEPT !.resp = <<>>]
         ELSE /\ pc' = [pc EXCEPT ![Worker] =
                          IF w.k = Len(Frame(w.cur.ins)) THEN "buf_done"
                          ELSE "buf_send"]
              /\ w' = [w EXCEPT !.k = @ + 1, !.resp = <<>>]
    /\ est' = [est EXCEPT ![Worker] = EstInit]
    /\ Wire(w.cur.id)
    /\ UNCHANGED <<events, shared, c, next_id, quota, handshaken,
                   enqueued, finished>>

\* the frame is started again after a mismatch
W_buf_retry ==
    /\ WStep("buf_mismatch", "buf_send")
    /\ event_buffered' = TRUE
    /\ w' = [w EXCEPT !.k = 1]
    /\ UNCHANGED <<event_instruction, event_lock, event_buffer_lock,
                   event_immediate_response, shared, est, c, history>>

\* lines 384-385: self.event_buffered.set(); raise BufferedResponseError()
\* (raised in the else: clause of run, line 164, where nothing catches it)
W_buf_mismatch ==
    /\ WStep("buf_mismatch", "dead")
    /\ event_buffered' = TRUE
    /\ w' = Dead("BufferedResponseError")
    /\ finished' = finished \cup {w.cur.id}
    /\ UNCHANGED <<event_instruction, event_lock, event_buffer_lock,
                   event_immediate_response, shared, est, c, next_id,
                   quota, wire_owner, wire_closed, handshaken, enqueued>>

\* line 390: self.event_buffered.set(); line 166: task_done()
W_buf_done ==
    /\ WStep("buf_done", "set_lock")
    /\ event_buffered' = TRUE
    /\ finished' = finished \cup {w.cur.id}
    /\ w' = WInit
    /\ UNCHANGED <<event_instruction, event_lock, event_buffer_lock,
                   event_immediate_response, shared, est, c, next_id,
                   quota, wire_owner, wire_closed, handshaken, enqueued>>

\* lines 159-162: except DeviceNotResponding: task_done(); last_exception = e
W_buf_dnr ==
    /\ WStep("buf_dnr", "set_lock")
    /\ last_exception' = Exc("DeviceNotResponding", w.cur.dev)
    /\ finished' = finished \cup {w.cur.id}
    /\ w' = WInit
    /\ est' = [est EXCEPT ![Worker] = EstInit]
    /\ UNCHANGED <<events, queue_instructions, immediate_instruction,
                   immediate_response, registered_devices, syringe, connected_device,
                   c, next_id, quota, wire_owner, wire_closed,
                   handshaken, enqueued>>

\* line 169: self.event_lock.set(), then back to the top of the loop
W_set_lock ==
    /\ WStep("set_lock", "wait_instruction")
    /\ event_lock' = TRUE
    /\ UNCHANGED <<event_instruction, event_buffer_lock, event_buffered,
                   event_immediate_response, shared, est, w, c, history>>

(***************************************************************************)
(* Caller threads                                                          *)
(***************************************************************************)
CStep(t, from, to) ==
    /\ pc[t] = from
    /\ pc' = [pc EXCEPT ![t] = to]

\* register_device, line 275: self.event_buffer_lock.clear()
C_register(t, device_id) ==
    /\ CStep(t, "idle", "reg_wait_lock")
    /\ quota.reg > 0
    /\ quota' = [quota EXCEPT !.reg = @ - 1]
    /\ event_buffer_lock' = FALSE
    /\ c' = [c EXCEPT ![t] = [CInit EXCEPT !.op = "register", !.dev = device_id]]
    /\ UNCHANGED <<event_instruction, event_lock, event_buffered,
                   event_immediate_response, shared, est, w, next_id,
                   wire_owner, wire_closed, handshaken, enqueued, finished>>

\* register_device, line 276: self.event_lock.wait()
C_reg_wait_lock(t) ==
    /\ CStep(t, "reg_wait_lock", "reg_append")
    /\ event_lock
    /\ UNCHANGED <<events, shared, est, w, c, history>>

\* self.registered_devices.append(dev_id)
RegistryAppend(devices, device_id) == Append(devices, device_id)

\* register_device, lines 277-279: append, then call establish_connection
C_reg_append(t) ==
    /\ CStep(t, "reg_append", "est_check")
    /\ registered_devices' = RegistryAppend(registered_devices, c[t].dev)
    /\ est' = [est EXCEPT ![t] = EstCall(c[t].dev)]
    /\ UNCHANGED <<events, queue_instructions, immediate_instruction,
                   immediate_response, last_exception, connected_device,
                   syringe, w, c, history>>

\* register_device, lines 280-284: the value returned for an outcome
RegisterResultTrue(out) == "True"
RegisterResult(out) == IF out = "DeviceNotResponding" THEN "False" ELSE "True"

\* register_device, lines 281-282 / 283-284: event_buffer_lock.set(); return
C_reg_return(t) ==
    /\ CStep(t, "reg_return", "returned")
    /\ event_buffer_lock' = TRUE
    /\ c' = [c EXCEPT ![t].ret = RegisterResult(est[t].out)]
    /\ est' = [est EXCEPT ![t] = EstInit]
    /\ UNCHANGED <<event_instruction, event_lock, event_buffered,
                   event_immediate_response, shared, w, history>>

\* a caller may submit while the quota lasts; the caller threads run the same
\* code, so the first instruction of a run is taken to be c1's
MaySubmit(t) == quota.instr > 0 /\ (next_id > 0 \/ t = SetupThread)

\* add_immediate_instruction, line 323: self.event_buffered.clear()
C_add_immediate(t, device_id) ==
    /\ CStep(t, "idle", "imm_put")
    /\ MaySubmit(t)
    /\ quota' = [quota EXCEPT !.instr = @ - 1]
    /\ next_id' = next_id + 1
    /\ event_buffered' = FALSE
    /\ c' = [c EXCEPT ![t] = [CInit EXCEPT !.op = "immediate", !.dev = device_id,
                                           !.id = next_id + 1]]
    /\ UNCHANGED <<event_instruction, event_lock, event_buffer_lock,
                   event_immediate_response, shared, est, w,
                   wire_owner, wire_closed, handshaken, enqueued, finished>>

\* line 332: self.immediate_instruction = (device_id, instruction, 0, parent_func)
C_imm_put(t) ==
    /\ CStep(t, "imm_put", "imm_set_instruction")
    /\ immediate_instruction' =
           [id |-> c[t].id, dev |-> c[t].dev, ins |-> VersionCommand, wait |-> "0"]
    /\ UNCHANGED <<events, queue_instructions, immediate_response,
                   last_exception, registered_devices, syringe, connected_device,
                   est, w, c, history>>

\* line 333: self.event_instruction.set()
C_imm_set_instruction(t) ==
    /\ CStep(t, "imm_set_instruction", "imm_wait")
    /\ event_instruction' = TRUE
    /\ UNCHANGED <<event_lock, event_buffer_lock, event_buffered,
                   event_immediate_response, shared, est, w, c, history>>

\* line 334: self.event_immediate_response.wait()
C_imm_wait(t) ==
    /\ CStep(t, "imm_wait", "imm_take")
    /\ event_immediate_response
    /\ UNCHANGED <<events, shared, est, w, c, history>>

\* line 335: response = self.immediate_response
C_imm_take(t) ==
    /\ CStep(t, "imm_take", "imm_reset")
    /\ c' = [c EXCEPT ![t].response = immediate_response]
    /\ UNCHANGED <<events, shared, est, w, history>>

\* line 336: self.immediate_response = False
C_imm_reset(t) ==
    /\ CStep(t, "imm_reset", "imm_clear_event")
    /\ immediate_response' = NoResponse
    /\ UNCHANGED <<events, queue_instructions, immediate_instruction,
                   last_exception, registered_devices, syringe, connected_device,
                   est, w, c, history>>

\* line 337: self.event_immediate_response.clear()
C_imm_clear_event(t) ==
    /\ CStep(t, "imm_clear_event", "imm_return")
    /\ event_immediate_response' = FALSE
    /\ UNCHANGED <<event_instruction, event_lock, event_buffer_lock,
                   event_buffered, shared, est, w, c, history>>

\* lines 338-339: self.event_buffered.set(); return response
C_imm_return(t) ==
    /\ CStep(t, "imm_return", "returned")
    /\ event_buffered' = TRUE
    /\ c' = [c EXCEPT ![t].ret = "response"]
    /\ UNCHANGED <<event_instruction, event_lock, event_buffer_lock,
                   event_immediate_response, shared, est, w, history>>

\* add_buffered_instruction, line 352: self.event_buffered.clear()
C_add_buffered(t, device_id, wait) ==
    /\ CStep(t, "idle", "buf_put")
    /\ MaySubmit(t)
    /\ quota' = [quota EXCEPT !.instr = @ - 1]
    /\ next_id' = next_id + 1
    /\ event_buffered' = FALSE
    /\ c' = [c EXCEPT ![t] = [CInit EXCEPT !.op = "buffered", !.dev = device_id,
                                           !.id = next_id + 1, !.wait = wait]]
    /\ UNCHANGED <<event_instruction, event_lock, event_buffer_lock,
                   event_immediate_response, shared, est, w,
                   wire_owner, wire_closed, handshaken, enqueued, finished>>

\* Queue.put(item)
QueuePutFront(q, item) == <<item>> \o q
QueuePut(q, item) == Append(q, item)

\* line 361: self.queue_instructions.put((device_id, instruction, wait, parent_func))
C_buf_put(t) ==
    /\ CStep(t, "buf_put", "buf_set_instruction")
    /\ queue_instructions' = QueuePut(queue_instructions,
           [id |-> c[t].id, dev |-> c[t].dev, ins |-> HomeCommand, wait |-> c[t].wait])
    /\ enqueued' = Append(enqueued,
           [id |-> c[t].id, dev |-> c[t].dev, ins |-> HomeCommand, wait |-> c[t].wait])
    /\ UNCHANGED <<events, immediate_instruction, immediate_response,
                   last_exception, registered_devices, syringe, connected_device,
                   est, w, c, next_id, quota, wire_owner, wire_closed,
                   handshaken, finished>>

\* line 362: self.event_instruction.set(); return
C_buf_set_instruction(t) ==
    /\ CStep(t, "buf_set_instruction", "returned")
    /\ event_instruction' = TRUE
    /\ c' = [c EXCEPT ![t].ret = "None"]
    /\ UNCHANGED <<event_lock, event_buffer_lock, event_buffered,
                   event_immediate_response, shared, est, w, history>>

\* QuadZDevice.wait_for_buffered is called
C_wait_for_buffered(t) ==
    /\ CStep(t, "idle", "drain_wait")
    /\ c' = [c EXCEPT ![t] = [CInit EXCEPT !.op = "drain"]]
    /\ UNCHANGED <<events, shared, est, w, history>>

\* quadz.py line 1014: self.queue.event_buffered.wait() returns
C_drain_return(t) ==
    /\ CStep(t, "drain_wait", "returned")
    /\ event_buffered
    /\ c' = [c EXCEPT ![t].ret = "drained"]
    /\ UNCHANGED <<events, shared, est, w, history>>

\* the call has returned; the caller goes on with its own code
C_continue(t) ==
    /\ CStep(t, "returned", "idle")
    /\ c' = [c EXCEPT ![t] = CInit]
    /\ UNCHANGED <<events, shared, est, w, history>>

(***************************************************************************)
(* QuadZDevice.pump, run by a caller thread.  Volumes are counted in halves *)
(* of a microlitre, so that a volume has a fractional part (0 or .5).  The  *)
(* status queries (get_syringe_pump_status, an immediate instruction 'M')   *)
(* are taken by their result: the status and volume the device reports.     *)
(***************************************************************************)
UL(n) == 2 * n
\* volume % 1, and int(vol)
Frac(v) == v % 2
IntPart(v) == v \div 2
Abs(v) == IF v < 0 THEN 0 - v ELSE v

\* the volumes a caller passes, and the volumes a device reports
Amounts == {UL(0 - 250), UL(0 - 150), UL(50), UL(500)}
StatusVolumes == {UL(200), UL(100) + 1}
PumpInputs == UNION {[1..n -> Amounts] : n \in 1..MaxProbes}

\* after add_402_syringe_pump(0, 1, 2) and add_402_syringe_pump(1, 3, 4):
\* probes 1 and 3 are the left, probes 2 and 4 the right syringes of the
\* devices 0 and 1
syringe_devices == <<0, 1>>
ProbeLetter(probe_num) == IF probe_num % 2 = 0 THEN CH_R ELSE CH_L

\* str(volume) + suffix: '50.0' for the int 50, '100.5' for the float 100.5
Digit(d) == CH_ZERO + d
RECURSIVE Digits(_)
Digits(n) == IF n < 10 THEN <<Digit(n)>>
             ELSE Digits(n \div 10) \o <<Digit(n % 10)>>
FormatVolume(v) ==
    Digits(IntPart(v)) \o <<CH_DOT, IF Frac(v) = 0 THEN Digit(0) ELSE Digit(5)>>

\* 'A' or 'D', the probe letter and the volume; 'BB'
SetVolumeDispense(letter, probe_num, volume) ==
    <<CH_D, ProbeLetter(probe_num)>> \o FormatVolume(volume)
SetVolumeCommand(letter, probe_num, volume) ==
    <<letter, ProbeLetter(probe_num)>> \o FormatVolume(volume)
StartCommand == <<CH_B, CH_B>>

\* QuadZDevice.buffered(instruction, device_id) for a syringe device:
\* add_buffered_instruction(device_id, instruction, wait = 'pump'), lines 352-362
PumpPut(device_id, instruction) ==
    /\ queue_instructions' = QueuePut(queue_instructions,
           [id |-> next_id + 1, dev |-> device_id, ins |-> instruction,
            wait |-> "pump"])
    /\ enqueued' = Append(enqueued,
           [id |-> next_id + 1, dev |-> device_id, ins |-> instruction,
            wait |-> "pump"])
    /\ next_id' = next_id + 1
    /\ event_buffered' = FALSE
    /\ event_instruction' = TRUE

\* the size set for every syringe, set_syringe_size(probe, 250)
syringe_size == UL(250)

\* lines 980-981 and 987-988: the sufficiency check of one entry
Insufficient(volume, vol) ==
    IF volume > 0 THEN vol < volume ELSE vol > 0 - volume

\* pump(volumes) is called; line 976
C_pump(t, volumes) ==
    /\ CStep(t, "idle", "pump_check")
    /\ quota.pump > 0
    /\ quota' = [quota EXCEPT !.pump = @ - 1]
    /\ c' = [c EXCEPT ![t] =
               [CInit EXCEPT !.op = "pump", !.base = Len(enqueued),
                             !.p = [NoPump EXCEPT !.volumes = volumes, !.i = 1,
                                                  !.stage = "check"]]]
    /\ UNCHANGED <<events, shared, est, w, next_id, wire_owner, wire_closed,
                   handshaken, enqueued, finished>>

\* lines 978-984 / 987-991: read the volume of probe i and check it
P_check(t) ==
    /\ pc[t] = "pump_check"
    /\ \E vol \in StatusVolumes :
         /\ c' = [c EXCEPT ![t].p.vol = vol,
                           ![t].p.starting_vol = Append(@, vol),
                           ![t].ret =
                               IF Insufficient(c[t].p.volumes[c[t].p.i], vol)
                               THEN "VolumeError" ELSE @]
         /\ pc' = [pc EXCEPT ![t] =
                      IF Insufficient(c[t].p.volumes[c[t].p.i], vol)
                      THEN "raised" ELSE "pump_set"]
    /\ UNCHANGED <<events, shared, est, w, history>>

\* lines 985-986 / 992-993: set_dispense_volume or set_aspirate_volume
\* (lines 732-778: wait_for_buffered; return if the fractional parts of the
\* amount and of the reported volume are equal; otherwise enqueue 'D' or 'A',
\* note the signed amount as next_operation (-volume for 'A', volume for 'D')
\* and poll until the status is 'H'), then starting_vol[i] -= volumes[i]
P_set(t) ==
    /\ pc[t] = "pump_set"
    /\ event_buffered
    /\ \E vol \in StatusVolumes :
         IF Frac(Abs(c[t].p.volumes[c[t].p.i])) = Frac(vol)
         THEN UNCHANGED <<queue_instructions, enqueued, next_id,
                          event_instruction, event_buffered, syringe>>
         ELSE /\ PumpPut(SyringeDevice(c[t].p.i),
                      SetVolumeCommand(
                          IF c[t].p.volumes[c[t].p.i] > 0 THEN CH_D ELSE CH_A,
                          c[t].p.i, Abs(c[t].p.volumes[c[t].p.i])))
              /\ syringe' = [syringe EXCEPT ![c[t].p.i].next_operation =
                                                c[t].p.volumes[c[t].p.i]]
    /\ c' = [c EXCEPT ![t].p.starting_vol[c[t].p.i] =
                          @ - c[t].p.volumes[c[t].p.i],
                      ![t].p.sets = @ + 1,
                      ![t].p.i = IF @ < Len(c[t].p.volumes) THEN @ + 1 ELSE 1]
    /\ pc' = [pc EXCEPT ![t] = IF c[t].p.i < Len(c[t].p.volumes)
                               THEN "pump_check" ELSE "pump_start"]
    /\ UNCHANGED <<event_lock, event_buffer_lock, event_immediate_response,
                   immediate_instruction, immediate_response, last_exception,
                   registered_devices, connected_device, est, w, quota,
                   wire_owner, wire_closed, handshaken, finished>>

\* the start command issued as soon as one probe has been checked
P_start_early(t) ==
    /\ pc[t] \in {"pump_start", "pump_set"}
    /\ PumpPut(syringe_devices[1], StartCommand)
    /\ c' = [c EXCEPT ![t].p.i = 1, ![t].p.stage = "poll"]
    /\ pc' = [pc EXCEPT ![t] = "pump_poll"]
    /\ UNCHANGED <<event_lock, event_buffer_lock, event_immediate_response,
                   immediate_instruction, immediate_response, last_exception,
                   registered_devices, syringe, connected_device, est, w, quota,
                   wire_owner, wire_closed, handshaken, finished>>

\* lines 995-996: self.buffered('BB', device) for one device of syringe_devices
P_start(t) ==
    /\ pc[t] = "pump_start"
    /\ PumpPut(syringe_devices[c[t].p.i], StartCommand)
    /\ c' = [c EXCEPT ![t].p.i = IF @ < Len(syringe_devices) THEN @ + 1 ELSE 1,
                      ![t].p.stage = IF c[t].p.i < Len(syringe_devices)
                                     THEN @ ELSE "poll"]
    /\ pc' = [pc EXCEPT ![t] = IF c[t].p.i < Len(syringe_devices)
                               THEN "pump_start" ELSE "pump_poll"]
    /\ UNCHANGED <<event_lock, event_buffer_lock, event_immediate_response,
                   immediate_instruction, immediate_response, last_exception,
                   registered_devices, syringe, connected_device, est, w, quota,
                   wire_owner, wire_closed, handshaken, finished>>

\* lines 1000-1011: one round of the polling loop of probe i
P_poll(t) ==
    /\ pc[t] = "pump_poll"
    /\ \E status \in {CH_R, CH_H} :
       \E vol \in StatusVolumes \cup {c[t].p.starting_vol[c[t].p.i]} :
         IF /\ status # CH_R
            /\ c[t].p.running
            /\ IntPart(vol) # IntPart(c[t].p.starting_vol[c[t].p.i])
         THEN /\ c' = [c EXCEPT ![t].p.vol = vol, ![t].p.status = status,
                                ![t].ret = "VolumeError"]
              /\ pc' = [pc EXCEPT ![t] = "raised"]
         ELSE IF IntPart(vol) = IntPart(c[t].p.starting_vol[c[t].p.i])
              THEN /\ c' = [c EXCEPT ![t].p.vol = vol,
                                     ![t].p.status = status,
                                     ![t].p.running = FALSE,
                                     ![t].p.i = @ + 1,
                                     ![t].ret =
                                        IF c[t].p.i < Len(c[t].p.volumes)
                                        THEN @ ELSE "None"]
                   /\ pc' = [pc EXCEPT ![t] =
                                IF c[t].p.i < Len(c[t].p.volumes)
                                THEN "pump_poll" ELSE "returned"]
              ELSE /\ c' = [c EXCEPT ![t].p.vol = vol,
                                     ![t].p.status = status,
                                     ![t].p.running = @ \/ status = CH_R]
                   /\ pc' = pc
    /\ UNCHANGED <<events, shared, est, w, history>>

(***************************************************************************)
(* QuadZDevice.initialize_syringe, run by a caller thread.  The status     *)
(* queries are taken by their result, as in pump.                          *)
(***************************************************************************)
\* lines 856-862: 'O' + 'B', 'L' or 'R'
InitializeCommand(probe_num, both) ==
    <<CH_O, IF both THEN CH_B ELSE ProbeLetter(probe_num)>>

\* the statuses a syringe reports: initializing 'I', and 'H'
SyringeStatuses == {CH_I, CH_H}

\* initialize_syringe(probe_num, both, block) is called
C_initialize_syringe(t, probe_num, both, block) ==
    /\ CStep(t, "idle", "init_wait")
    /\ quota.syringe > 0
    /\ quota' = [quota EXCEPT !.syringe = @ - 1]
    /\ c' = [c EXCEPT ![t] =
               [CInit EXCEPT !.op = "initialize_syringe",
                             !.s = [NoSyringe EXCEPT !.probe_num = probe_num,
                                                     !.both = both,
                                                     !.block = block]]]
    /\ UNCHANGED <<events, shared, est, w, next_id, wire_owner, wire_closed,
                   handshaken, enqueued, finished>>

\* lines 854-863: wait_for_buffered, buffered('O' + syringe, device_id), and
\* the first test of the loop condition
S_enqueue(t) ==
    /\ pc[t] = "init_wait"
    /\ event_buffered
    /\ PumpPut(SyringeDevice(c[t].s.probe_num),
               InitializeCommand(c[t].s.probe_num, c[t].s.both))
    /\ pc' = [pc EXCEPT ![t] = IF c[t].s.block THEN "init_poll" ELSE "returned"]
    /\ c' = [c EXCEPT ![t].ret = IF c[t].s.block THEN @ ELSE "None"]
    /\ UNCHANGED <<event_lock, event_buffer_lock, event_immediate_response,
                   immediate_instruction, immediate_response, last_exception,
                   registered_devices, syringe, connected_device, est, w, quota,
                   wire_owner, wire_closed, handshaken, finished>>

\* lines 871 and 863: the round returns only inside 'if both'
PollReturns(both, status, partner) ==
    /\ status # CH_I
    /\ both
    /\ partner # CH_I

\* lines 863-871: one round of the loop 'while block'; the partner is
\* queried only when both is set and the probe has left 'I'
S_poll(t) ==
    /\ pc[t] = "init_poll"
    /\ \E status \in SyringeStatuses :
       \E partner \in IF c[t].s.both /\ status # CH_I
                      THEN SyringeStatuses ELSE {0} :
         /\ c' = [c EXCEPT ![t].s.status = status,
                           ![t].s.partner = partner,
                           ![t].ret = IF PollReturns(c[t].s.both, status, partner)
                                      THEN "None" ELSE @]
         /\ pc' = [pc EXCEPT ![t] =
                      IF PollReturns(c[t].s.both, status, partner)
                      THEN "returned" ELSE "init_poll"]
    /\ UNCHANGED <<events, shared, est, w, history>>

(***************************************************************************)
(* QuadZDevice.move_to, run by a caller thread.  The position queries       *)
(* (get_encoder_position, get_probe_x_position: immediate 'P' and 'X') are  *)
(* taken by their result.  Times are counted in polling intervals of 0.05 s.*)
(***************************************************************************)
\* self.device_id after initialize_device(22): the liquid handler
HandlerId == 22

\* the x positions a probe reports (ints, line 371) and the y positions the
\* encoder reports (strings, line 248)
XPositions == {0, 100}
YTargets == {2000}
YPositions == {Digits(0), Digits(2000)}
Samples == [probe_x : [Probes -> XPositions], Y : YPositions]
Timeouts == {0, 1}

\* position['Y'] != y compares a str with an int: never equal
StrDiffersFromInt(str, n) == TRUE

\* line 552: while probe_x[probe] != x and position['Y'] != y
OffTarget(sample, x, y, probe) ==
    /\ sample.probe_x[probe] # x
    /\ StrDiffersFromInt(sample.Y, y)

\* line 507: 'SX%s%i/%i' % (self.probe_map[probe], x, y)
ProbeName(probe) == CH_LOWER_A + probe - 1
PositionCommand(probe, x, y) ==
    <<CH_S, CH_X, ProbeName(probe)>> \o Digits(x) \o <<CH_SLASH>> \o Digits(y)

\* the instruction put on the queue twice
HandlerPutTwice(instruction) ==
    /\ queue_instructions' = queue_instructions \o
           << [id |-> next_id + 1, dev |-> HandlerId, ins |-> instruction,
               wait |-> "true"],
              [id |-> next_id + 2, dev |-> HandlerId, ins |-> instruction,
               wait |-> "true"] >>
    /\ enqueued' = enqueued \o
           << [id |-> next_id + 1, dev |-> HandlerId, ins |-> instruction,
               wait |-> "true"],
              [id |-> next_id + 2, dev |-> HandlerId, ins |-> instruction,
               wait |-> "true"] >>
    /\ next_id' = next_id + 2
    /\ event_buffered' = FALSE
    /\ event_instruction' = TRUE

\* QuadZDevice.buffered(instruction) for the liquid handler (lines 115-122):
\* add_buffered_instruction(self.device_id, instruction, wait = True)
HandlerPut(instruction) ==
    /\ queue_instructions' = QueuePut(queue_instructions,
           [id |-> next_id + 1, dev |-> HandlerId, ins |-> instruction,
            wait |-> "true"])
    /\ enqueued' = Append(enqueued,
           [id |-> next_id + 1, dev |-> HandlerId, ins |-> instruction,
            wait |-> "true"])
    /\ next_id' = next_id + 1
    /\ event_buffered' = FALSE
    /\ event_instruction' = TRUE

\* move_to(x, y, probe, timeout) is called
C_move_to(t, x, y, probe, timeout) ==
    /\ CStep(t, "idle", "move_read")
    /\ quota.move > 0
    /\ quota' = [quota EXCEPT !.move = @ - 1]
    /\ c' = [c EXCEPT ![t] =
               [CInit EXCEPT !.op = "move_to", !.base = Len(enqueued),
                             !.m = [NoMove EXCEPT !.x = x, !.y = y,
                                                  !.probe = probe,
                                                  !.timeout = timeout]]]
    /\ UNCHANGED <<events, shared, est, w, next_id, wire_owner, wire_closed,
                   handshaken, enqueued, finished>>

\* lines 544-545: position and probe_x are read before the move is commanded
M_read(t) ==
    /\ CStep(t, "move_read", "move_set")
    /\ \E sample \in Samples : c' = [c EXCEPT ![t].m.sample = sample]
    /\ UNCHANGED <<events, shared, est, w, history>>

\* lines 548-549: set_probe_position(probe, x, y); sleep_counter = 0
M_set(t) ==
    /\ CStep(t, "move_set", "move_loop")
    /\ HandlerPut(PositionCommand(c[t].m.probe, c[t].m.x, c[t].m.y))
    /\ c' = [c EXCEPT ![t].m.sleep_counter = 0]
    /\ UNCHANGED <<event_lock, event_buffer_lock, event_immediate_response,
                   immediate_instruction, immediate_response, last_exception,
                   registered_devices, syringe, connected_device, est, w, quota,
                   wire_owner, wire_closed, handshaken, finished>>

\* lines 558-559: the sample after the settling delay is the sample before it
Stalled(sample, resample) ==
    /\ resample.probe_x = sample.probe_x
    /\ resample.Y = sample.Y

\* lines 560-562: the message of MoveInnacuracyDetected is built with
\* '... (%i, %i)' % (..., probe_x[probe], position['Y']); position['Y'] is a
\* str (line 248) and '%i' requires a number, so building the message raises
\* TypeError and the exception object is never constructed
StallException == "TypeError"

\* lines 552-562: the loop test and, once sleep_counter > timeout, the
\* settling delay of 2 s, the second sample, the comparison and the raise
M_loop(t) ==
    /\ pc[t] = "move_loop"
    /\ IF ~OffTarget(c[t].m.sample, c[t].m.x, c[t].m.y, c[t].m.probe)
       THEN /\ pc' = [pc EXCEPT ![t] = "returned"]
            /\ c' = [c EXCEPT ![t].ret = "None"]
       ELSE IF c[t].m.sleep_counter > c[t].m.timeout
            THEN \E resample \in Samples :
                   /\ c' = [c EXCEPT ![t].m.resample = resample,
                                     ![t].m.queried = TRUE,
                                     ![t].ret =
                                        IF Stalled(c[t].m.sample, resample)
                                        THEN StallException ELSE @]
                   /\ pc' = [pc EXCEPT ![t] =
                                IF Stalled(c[t].m.sample, resample)
                                THEN "raised" ELSE "move_next"]
            ELSE /\ pc' = [pc EXCEPT ![t] = "move_next"]
                 /\ c' = c
    /\ UNCHANGED <<events, shared, est, w, history>>

\* lines 563-566: sleep(.05), sleep_counter += .05, and the next sample
M_next(t) ==
    /\ CStep(t, "move_next", "move_loop")
    /\ c[t].m.sleep_counter < MaxSleepTicks
    /\ \E sample \in Samples :
         c' = [c EXCEPT ![t].m.sample = sample,
                        ![t].m.resample = NoSample,
                        ![t].m.queried = TRUE,
                        ![t].m.sleep_counter = @ + 1]
    /\ UNCHANGED <<events, shared, est, w, history>>

(***************************************************************************)
(* QuadZDevice.move_probe (src/quadz.py lines 568-617).  Heights are in    *)
(* tenths of millimetres, times in ticks of 0.2 s.                         *)
(***************************************************************************)
\* lines 23-25 of __init__
base_z == 0
base_tip_height == 10
current_tip_height == 20

ZOffsets == {0, 50}
ZProbes == 1..MaxProbes
ProbeLists == {<<1>>, <<2>>, <<1, 2>>}
ZPositions == {0, 300, 350}
ZSamples == [ZProbes -> ZPositions]
ZTimeouts == {0, 1}
\* self.sleep(2) in ticks of 0.2 s
SettleTicks == 10

\* lines 570-571
CompensatedZ(z) == z + (base_z + base_tip_height + current_tip_height) * 10

\* line 530: 'SZ%s%i' % (self.probe_map[probe], z)
ProbeZCommand(probe, z) == <<CH_S, CH_Z, ProbeName(probe)>> \o Digits(z)
\* line 461: 'SM'
StartMoveCommand == <<CH_S, CH_M>>

\* a probe counts as failed whenever its z is unchanged
FailedUnchanged(z_positions, new_z_positions, compensated_z, probe) ==
    z_positions[probe] = new_z_positions[probe]

\* lines 608-609
Failed(z_positions, new_z_positions, compensated_z, probe) ==
    /\ z_positions[probe] = new_z_positions[probe]
    /\ new_z_positions[probe] # compensated_z

\* lines 590-594: some listed probe's z is not the commanded z
ProbesMoving(z_positions, probes, compensated_z) ==
    \E k \in 1..Len(probes) : z_positions[probes[k]] # compensated_z

\* move_probe(z, probes, liquid_sensing, timeout) is called; lines 570-571
C_move_probe(t, z, probes, liquid_sensing, timeout) ==
    /\ CStep(t, "idle", "probe_set")
    /\ quota.move > 0
    /\ quota' = [quota EXCEPT !.move = @ - 1]
    /\ c' = [c EXCEPT ![t] =
               [CInit EXCEPT !.op = "move_probe", !.base = Len(enqueued),
                             !.z = [NoProbeMove EXCEPT
                                       !.z = z, !.probes = probes,
                                       !.liquid_sensing = liquid_sensing,
                                       !.timeout = timeout,
                                       !.compensated_z = CompensatedZ(z)]]]
    /\ UNCHANGED <<events, shared, est, w, next_id, wire_owner, wire_closed,
                   handshaken, enqueued, finished>>

\* lines 573-577, one round of the loop: QuadZDevice has no method
\* set_probe_z_with_liquid_sensing, so with liquid_sensing the call at line
\* 575 raises AttributeError; otherwise set_probe_z enqueues the z command
Z_set(t) ==
    /\ pc[t] = "probe_set"
    /\ c[t].z.i < Len(c[t].z.probes)
    /\ IF c[t].z.liquid_sensing
       THEN /\ pc' = [pc EXCEPT ![t] = "raised"]
            /\ c' = [c EXCEPT ![t].ret = "AttributeError"]
            /\ UNCHANGED <<events, queue_instructions, next_id, enqueued>>
       ELSE /\ HandlerPut(ProbeZCommand(c[t].z.probes[c[t].z.i + 1],
                                        c[t].z.compensated_z))
            /\ c' = [c EXCEPT ![t].z.i = @ + 1]
            /\ UNCHANGED <<pc, event_lock, event_buffer_lock,
                           event_immediate_response>>
    /\ UNCHANGED <<immediate_instruction, immediate_response, last_exception,
                   registered_devices, syringe, connected_device, est, w, quota,
                   wire_owner, wire_closed, handshaken, finished>>

\* lines 578-584: start_probe_move(); sleep_counter = 0; moving = True
Z_start(t) ==
    /\ CStep(t, "probe_set", "probe_poll")
    /\ c[t].z.i = Len(c[t].z.probes)
    /\ HandlerPut(StartMoveCommand)
    /\ c' = [c EXCEPT ![t].z.sleep_counter = 0]
    /\ UNCHANGED <<event_lock, event_buffer_lock, event_immediate_response,
                   immediate_instruction, immediate_response, last_exception,
                   registered_devices, syringe, connected_device, est, w, quota,
                   wire_owner, wire_closed, handshaken, finished>>

\* lines 585-598: sleep(.20), the z sample, the test of every listed probe,
\* and the test of the timeout
Z_poll(t) ==
    /\ pc[t] = "probe_poll"
    /\ c[t].z.sleep_counter <= MaxProbeTicks
    /\ \E z_positions \in ZSamples :
         /\ c' = [c EXCEPT ![t].z.z_positions = z_positions,
                           ![t].z.new_z_positions = <<>>,
                           ![t].z.sleep_counter = @ + 1,
                           ![t].ret =
                              IF ProbesMoving(z_positions, c[t].z.probes,
                                              c[t].z.compensated_z)
                              THEN @ ELSE "None"]
         /\ pc' = [pc EXCEPT ![t] =
               IF ~ProbesMoving(z_positions, c[t].z.probes,
                                c[t].z.compensated_z)
               THEN "returned"
               ELSE IF c[t].z.sleep_counter + 1 > c[t].z.timeout
                    THEN "probe_settle" ELSE "probe_poll"]
    /\ UNCHANGED <<events, shared, est, w, history>>

\* the listed probes that failed, in the order of the list (lines 607-611)
FailedList(z_positions, new_z_positions, compensated_z, probes) ==
    SelectSeq(probes,
              LAMBDA probe : Failed(z_positions, new_z_positions,
                                    compensated_z, probe))

\* lines 599-617: sleep(2), the second z sample, the list of failed probes
\* and the raise
Z_settle(t) ==
    /\ pc[t] = "probe_settle"
    /\ \E new_z_positions \in ZSamples :
         LET failed_list == FailedList(c[t].z.z_positions, new_z_positions,
                                       c[t].z.compensated_z, c[t].z.probes)
         IN /\ c' = [c EXCEPT ![t].z.new_z_positions = new_z_positions,
                              ![t].z.sleep_counter = @ + SettleTicks,
                              ![t].z.failed_list = failed_list,
                              ![t].ret = IF failed_list # <<>>
                                         THEN "MoveInnacuracyDetected" ELSE @]
            /\ pc' = [pc EXCEPT ![t] = IF failed_list # <<>>
                                       THEN "raised" ELSE "probe_poll"]
    /\ UNCHANGED <<events, shared, est, w, history>>

(***************************************************************************)
(* The cached pump state self.syringe: the status queries that fill it and *)
(* the setters (src/quadz.py lines 659-730, 812-826, 873-920).  A query is  *)
(* taken by the response the immediate instruction returns.                *)
(***************************************************************************)
StateProbes == 1..MaxProbes
\* responses to 'M' that the pattern of line 671 matches, with the volumes
\* '0' and '100.5'
StatusResponses ==
    {[left |-> CH_H, lvol |-> Digits(0),
      right |-> CH_R, rvol |-> Digits(100) \o <<CH_DOT, Digit(5)>>],
     [left |-> CH_R, lvol |-> Digits(100) \o <<CH_DOT, Digit(5)>>,
      right |-> CH_H, rvol |-> Digits(0)]}
\* responses to 'V': one character per side, or a response cut short
ValveResponses == {<<CH_N, CH_R>>, <<CH_R, CH_N>>, <<CH_R>>}
Amplitudes == {5}
SyringeSizes == {250}
FlowRates == {20}

\* float(text) in halves of a microlitre, for a text of digits with at most
\* one digit, 0 or 5, after the point
RECURSIVE IntOf(_)
IntOf(text) ==
    IF text = <<>> THEN 0
    ELSE 10 * IntOf(SubSeq(text, 1, Len(text) - 1))
             + (text[Len(text)] - CH_ZERO)
PointAt(text) ==
    IF \E k \in 1..Len(text) : text[k] = CH_DOT
    THEN CHOOSE k \in 1..Len(text) : text[k] = CH_DOT
    ELSE 0
ParseVolume(text) ==
    IF PointAt(text) = 0 THEN UL(IntOf(text))
    ELSE UL(IntOf(SubSeq(text, 1, PointAt(text) - 1)))
             + (IF SubSeq(text, PointAt(text) + 1, Len(text)) = <<Digit(5)>>
                THEN 1 ELSE 0)

\* the queried probe taken for the left probe whatever its side
SameProbe(probe_num) == probe_num

\* lines 674-679, 717-722, 884-889: pl and pr, the left and the right probe of
\* the pump of probe_num.  The test "side is 'right'" compares the identity of
\* two equal string constants of one module, which are one object
LeftProbe(probe_num) ==
    IF syringe[probe_num].side = "right"
    THEN syringe[probe_num].partner_probe ELSE probe_num
RightProbe(probe_num) ==
    IF syringe[probe_num].side = "right"
    THEN probe_num ELSE syringe[probe_num].partner_probe

\* a call of a query or a setter starts
StateCall(t, op, probe_num, value, both, to) ==
    /\ CStep(t, "idle", to)
    /\ quota.syringe > 0
    /\ quota' = [quota EXCEPT !.syringe = @ - 1]
    /\ c' = [c EXCEPT ![t] =
               [CInit EXCEPT !.op = op,
                             !.q = [NoQuery EXCEPT !.probe_num = probe_num,
                                                   !.value = value,
                                                   !.both = both]]]
    /\ UNCHANGED <<events, shared, est, w, next_id, wire_owner, wire_closed,
                   handshaken, enqueued, finished>>

C_get_syringe_pump_status(t, probe_num) ==
    StateCall(t, "get_syringe_pump_status", probe_num, 0, FALSE, "status_query")
C_get_valve_status(t, probe_num) ==
    StateCall(t, "get_valve_status", probe_num, 0, FALSE, "valve_query")
C_set_motor_force(t, probe_num, amplitude) ==
    StateCall(t, "set_motor_force", probe_num, amplitude, FALSE, "force_wait")
C_set_syringe_size(t, probe_num, volume, both) ==
    StateCall(t, "set_syringe_size", probe_num, volume, both, "size_wait")
C_set_syringe_flow_rate(t, probe_num, flow_rate) ==
    StateCall(t, "set_syringe_flow_rate", probe_num, flow_rate, FALSE,
              "rate_wait")

\* get_syringe_pump_status, lines 669-688, for a response the pattern matches
Q_status(t) ==
    /\ CStep(t, "status_query", "returned")
    /\ \E response \in StatusResponses :
         LET probe_num == c[t].q.probe_num
             pl == LeftProbe(probe_num)
             pr == RightProbe(probe_num)
         IN /\ syringe' = [syringe EXCEPT
                   ![pl].status = response.left,
                   ![pl].current_volume = StrValue(response.lvol),
                   ![pr].status = response.right,
                   ![pr].current_volume = StrValue(response.rvol)]
            /\ c' = [c EXCEPT
                   ![t].q.status_response = response,
                   ![t].q.result =
                       IF syringe[probe_num].side = "right"
                       THEN <<response.right, ParseVolume(response.rvol)>>
                       ELSE <<response.left, ParseVolume(response.lvol)>>,
                   ![t].ret = "value"]
    /\ UNCHANGED <<events, queue_instructions, immediate_instruction,
                   immediate_response, last_exception, registered_devices,
                   connected_device, est, w, history>>

\* lines 669-671 and 715-716 when the device does not answer: immediate
\* returns False (line 104), and re.match(pattern, False) or False[0] raises
\* TypeError before anything is written
Q_no_response(t) ==
    /\ pc[t] \in {"status_query", "valve_query"}
    /\ pc' = [pc EXCEPT ![t] = "raised"]
    /\ c' = [c EXCEPT ![t].ret = "TypeError"]
    /\ UNCHANGED <<events, shared, est, w, history>>

\* get_valve_status, lines 715-730: resp[0] goes to the left probe, then
\* resp[1] to the right probe; a response of one character raises IndexError
\* at line 724, after line 723 has written
Q_valve(t) ==
    /\ pc[t] = "valve_query"
    /\ \E resp \in ValveResponses :
         LET probe_num == c[t].q.probe_num
             pl == LeftProbe(probe_num)
             pr == RightProbe(probe_num)
         IN IF Len(resp) < 2
            THEN /\ syringe' = [syringe EXCEPT ![pl].valve_status = resp[1]]
                 /\ c' = [c EXCEPT ![t].q.valve_response = resp,
                                   ![t].ret = "IndexError"]
                 /\ pc' = [pc EXCEPT ![t] = "raised"]
            ELSE /\ syringe' = [syringe EXCEPT ![pl].valve_status = resp[1],
                                               ![pr].valve_status = resp[2]]
                 /\ c' = [c EXCEPT
                        ![t].q.valve_response = resp,
                        ![t].q.result =
                            <<resp[IF syringe[probe_num].side = "right"
                                   THEN 2 ELSE 1]>>,
                        ![t].ret = "value"]
                 /\ pc' = [pc EXCEPT ![t] = "returned"]
    /\ UNCHANGED <<events, queue_instructions, immediate_instruction,
                   immediate_response, last_exception, registered_devices,
                   connected_device, est, w, history>>

\* 'F%s%i', 'P%s%i' and 'S' + syringe + str(flow_rate)
SetterCommand(letter, side, value) == <<letter, side>> \o Digits(value)

\* set_motor_force, lines 819-826: wait_for_buffered, the buffered command,
\* then the new force is written
F_set(t) ==
    /\ CStep(t, "force_wait", "returned")
    /\ event_buffered
    /\ PumpPut(syringe[c[t].q.probe_num].device_id,
               SetterCommand(CH_F, ProbeLetter(c[t].q.probe_num),
                             c[t].q.value))
    /\ syringe' = [syringe EXCEPT
                      ![c[t].q.probe_num].motor_force = c[t].q.value]
    /\ c' = [c EXCEPT ![t].ret = "None"]
    /\ UNCHANGED <<event_lock, event_buffer_lock, event_immediate_response,
                   immediate_instruction, immediate_response, last_exception,
                   registered_devices, connected_device, est, w, quota,
                   wire_owner, wire_closed, handshaken, finished>>

\* set_syringe_size, lines 882-904.  With both, lines 892-894 write the size
\* of both probes and the key 'size', and line 895 reads the key 'opposite',
\* which no entry has: KeyError, and nothing is enqueued.  Otherwise the size
\* of the probe is written and the command enqueued
Size_set(t) ==
    /\ pc[t] = "size_wait"
    /\ event_buffered
    /\ LET probe_num == c[t].q.probe_num
           pl == LeftProbe(probe_num)
           pr == RightProbe(probe_num)
       IN IF c[t].q.both
          THEN /\ syringe' = [syringe EXCEPT
                                 ![pl].syringe_size = c[t].q.value,
                                 ![pr].syringe_size = c[t].q.value,
                                 ![probe_num].size = c[t].q.value]
               /\ c' = [c EXCEPT ![t].ret = "KeyError"]
               /\ pc' = [pc EXCEPT ![t] = "raised"]
               /\ UNCHANGED <<queue_instructions, enqueued, next_id,
                              event_instruction, event_buffered>>
          ELSE /\ syringe' = [syringe EXCEPT
                                 ![probe_num].syringe_size = c[t].q.value]
               /\ PumpPut(syringe[probe_num].device_id,
                          SetterCommand(CH_P, ProbeLetter(probe_num),
                                        c[t].q.value))
               /\ c' = [c EXCEPT ![t].ret = "None"]
               /\ pc' = [pc EXCEPT ![t] = "returned"]
    /\ UNCHANGED <<event_lock, event_buffer_lock, event_immediate_response,
                   immediate_instruction, immediate_response, last_exception,
                   registered_devices, connected_device, est, w, quota,
                   wire_owner, wire_closed, handshaken, finished>>

\* set_syringe_flow_rate, lines 913-920: wait_for_buffered, the new rate is
\* written, then the buffered command
R_set(t) ==
    /\ CStep(t, "rate_wait", "returned")
    /\ event_buffered
    /\ syringe' = [syringe EXCEPT
                      ![c[t].q.probe_num].flow_rate = c[t].q.value]
    /\ PumpPut(syringe[c[t].q.probe_num].device_id,
               SetterCommand(CH_S, ProbeLetter(c[t].q.probe_num),
                             c[t].q.value))
    /\ c' = [c EXCEPT ![t].ret = "None"]
    /\ UNCHANGED <<event_lock, event_buffer_lock, event_immediate_response,
                   immediate_instruction, immediate_response, last_exception,
                   registered_devices, connected_device, est, w, quota,
                   wire_owner, wire_closed, handshaken, finished>>

\* the caller goes on after an exception
C_resume(t) ==
    /\ CStep(t, "raised", "idle")
    /\ c[t].op \in {"get_syringe_pump_status", "get_valve_status",
                    "set_syringe_size"}
    /\ c' = [c EXCEPT ![t] = CInit]
    /\ UNCHANGED <<events, shared, est, w, history>>

(***************************************************************************)
(* The system                                                              *)
(***************************************************************************)
Establish(t) ==
    \/ Est_check(t)
    \/ Disconnect(t)
    \/ Connect(t)
    \/ Conn_set(t)

WorkerNext ==
    \/ W_wait_instruction
    \/ W_wait_buffer_lock
    \/ W_clear_lock
    \/ W_check_immediate
    \/ Establish(Worker)
    \/ W_imm_send
    \/ W_decode
    \/ W_imm_ok_response
    \/ W_imm_ok_clear
    \/ W_imm_exc_response
    \/ W_imm_exc_clear
    \/ W_imm_exc_last
    \/ W_imm_set_response
    \/ W_imm_dnr_response
    \/ W_imm_dnr_set
    \/ W_imm_dnr_clear
    \/ W_imm_dnr_last
    \/ W_check_queue
    \/ W_check_idle
    \/ W_clear_instruction
    \/ W_poll_send
    \/ W_buf_send
    \/ W_buf_mismatch
    \/ W_buf_done
    \/ W_buf_dnr
    \/ W_set_lock

RegisterNext(t) ==
    \/ \E a \in Addresses : C_register(t, a)
    \/ C_reg_wait_lock(t)
    \/ C_reg_append(t)
    \/ Establish(t)
    \/ C_reg_return(t)

ClientNext(t) ==
    \/ \E a \in Addresses : C_add_immediate(t, a)
    \/ C_imm_put(t)
    \/ C_imm_set_instruction(t)
    \/ C_imm_wait(t)
    \/ C_imm_take(t)
    \/ C_imm_reset(t)
    \/ C_imm_clear_event(t)
    \/ C_imm_return(t)
    \/ \E a \in Addresses : \E wt \in WaitsOf(a) : C_add_buffered(t, a, wt)
    \/ C_buf_put(t)
    \/ C_buf_set_instruction(t)
    \/ C_wait_for_buffered(t)
    \/ C_drain_return(t)
    \/ C_continue(t)

\* the worker without the buffered branch, and a caller of
\* add_immediate_instruction
ImmediateWorkerNext ==
    \/ W_wait_instruction
    \/ W_wait_buffer_lock
    \/ W_clear_lock
    \/ W_check_immediate
    \/ Establish(Worker)
    \/ W_imm_send
    \/ W_decode
    \/ W_imm_ok_response
    \/ W_imm_ok_clear
    \/ W_imm_exc_response
    \/ W_imm_exc_clear
    \/ W_imm_exc_last
    \/ W_imm_set_response
    \/ W_imm_dnr_response
    \/ W_imm_dnr_set
    \/ W_imm_dnr_clear
    \/ W_imm_dnr_last
    \/ W_check_queue
    \/ W_check_idle
    \/ W_clear_instruction
    \/ W_set_lock

ImmediateClientNext(t) ==
    \/ \E a \in Addresses : C_add_immediate(t, a)
    \/ C_imm_put(t)
    \/ C_imm_set_instruction(t)
    \/ C_imm_wait(t)
    \/ C_imm_take(t)
    \/ C_imm_reset(t)
    \/ C_imm_clear_event(t)
    \/ C_imm_return(t)
    \/ C_continue(t)

\* set-up: the thread that owns the QuadZDevice registers devices and may
\* already submit instructions, next to the worker
Next == WorkerNext \/ RegisterNext(SetupThread) \/ ClientNext(SetupThread)

Spec == Init /\ [][Next]_vars

\* operation: the caller threads submit instructions to the registered devices
NextOps == WorkerNext \/ \E t \in Callers : ClientNext(t)

SpecOps == InitOps /\ [][NextOps]_vars

\* immediate instructions only, from one thread, with long responses
NextImmediate == ImmediateWorkerNext \/ ImmediateClientNext(SetupThread)

SpecImmediate == InitImmediate /\ [][NextImmediate]_vars

\* one thread calls QuadZDevice.pump
PumpNext(t) ==
    \/ \E volumes \in PumpInputs : C_pump(t, volumes)
    \/ P_check(t)
    \/ P_set(t)
    \/ P_start(t)
    \/ P_poll(t)
    \/ C_continue(t)

\* the worker without the immediate branch
BufferedWorkerNext ==
    \/ W_wait_instruction
    \/ W_wait_buffer_lock
    \/ W_clear_lock
    \/ W_check_immediate
    \/ W_check_queue
    \/ Establish(Worker)
    \/ W_poll_send
    \/ W_decode
    \/ W_buf_send
    \/ W_buf_mismatch
    \/ W_buf_done
    \/ W_buf_dnr
    \/ W_check_idle
    \/ W_clear_instruction
    \/ W_set_lock

NextPump == BufferedWorkerNext \/ PumpNext(SetupThread)

SpecPump == InitPump /\ [][NextPump]_vars

\* one thread calls QuadZDevice.initialize_syringe
SyringeNext(t) ==
    \/ \E probe_num \in Probes : \E both, block \in BOOLEAN :
           C_initialize_syringe(t, probe_num, both, block)
    \/ S_enqueue(t)
    \/ S_poll(t)
    \/ C_continue(t)

NextSyringe == BufferedWorkerNext \/ SyringeNext(SetupThread)

SpecSyringe == InitSyringe /\ [][NextSyringe]_vars

\* the worker's buffered branch, and one thread that queries and sets the
\* pump state
StateNext(t) ==
    \/ \E probe_num \in StateProbes : C_get_syringe_pump_status(t, probe_num)
    \/ \E probe_num \in StateProbes : C_get_valve_status(t, probe_num)
    \/ \E probe_num \in StateProbes : \E amplitude \in Amplitudes :
           C_set_motor_force(t, probe_num, amplitude)
    \/ \E probe_num \in StateProbes : \E volume \in SyringeSizes :
       \E both \in BOOLEAN : C_set_syringe_size(t, probe_num, volume, both)
    \/ \E probe_num \in StateProbes : \E flow_rate \in FlowRates :
           C_set_syringe_flow_rate(t, probe_num, flow_rate)
    \/ Q_status(t)
    \/ Q_no_response(t)
    \/ Q_valve(t)
    \/ F_set(t)
    \/ Size_set(t)
    \/ R_set(t)
    \/ C_continue(t)
    \/ C_resume(t)

NextState == BufferedWorkerNext \/ StateNext(SetupThread)

SpecState == InitState /\ [][NextState]_vars

\* one thread calls QuadZDevice.move_to
MoveNext(t) ==
    \/ \E x \in XPositions : \E y \in YTargets : \E probe \in Probes :
       \E timeout \in Timeouts : C_move_to(t, x, y, probe, timeout)
    \/ M_read(t)
    \/ M_set(t)
    \/ M_loop(t)
    \/ M_next(t)
    \/ C_continue(t)

NextMove == MoveNext(SetupThread)

SpecMove == InitMove /\ [][NextMove]_vars

\* one thread calls QuadZDevice.move_probe
ProbeNext(t) ==
    \/ \E z \in ZOffsets : \E probes \in ProbeLists :
       \E liquid_sensing \in BOOLEAN : \E timeout \in ZTimeouts :
         C_move_probe(t, z, probes, liquid_sensing, timeout)
    \/ Z_set(t)
    \/ Z_start(t)
    \/ Z_poll(t)
    \/ Z_settle(t)
    \/ C_continue(t)

NextProbe == ProbeNext(SetupThread)

SpecProbe == InitMove /\ [][NextProbe]_vars

(***************************************************************************)
(* Properties                                                              *)
(***************************************************************************)

\* C1: the wire bytes of two instructions never interleave: once the bytes of
\* another instruction have followed those of an instruction, no byte of the
\* earlier instruction is written or read again.
C1_NoInterleavedInstructions == wire_owner \notin wire_closed

\* two instructions were on the wire, one after the other, both to the end
C1_Witness ==
    /\ wire_closed # {}
    /\ wire_owner # 0
    /\ pc[Worker] = "wait_instruction"

\* t has made a transport write of a send/read sequence that is not finished:
\* the disconnect byte of a handshake round is out, or a command is out and
\* its response is being read
MidSequence(t) ==
    \/ pc[t] \in {"connect", "conn_set"}
    \/ t = Worker /\ pc[t] = "decode"

\* C2: at most one thread is inside a transport send/read sequence, the
\* worker servicing an instruction or register_device doing its handshake.
C2_NoOverlap == Cardinality({t \in Threads : MidSequence(t)}) <= 1

\* t waits in add_immediate_instruction, the worker sleeps at
\* event_instruction.wait(), and no other call is in progress that could wake it
Stuck(t) ==
    /\ pc[t] = "imm_wait"
    /\ ~event_immediate_response
    /\ pc[Worker] = "wait_instruction"
    /\ ~event_instruction
    /\ \A u \in Callers \ {t} : pc[u] \in {"idle", "imm_wait"}

\* C3: every call of add_immediate_instruction returns: no caller is left
\* waiting for its response with the worker asleep and nothing else going on.
C3_ImmediateReturns == \A t \in Callers : ~Stuck(t)

\* the worker holds a buffered instruction it has taken from the queue
Transmitting == w.ctx = "buf" /\ pc[Worker] # "dead"

\* C4: whenever wait_for_buffered returns, the buffered queue is empty and no
\* buffered instruction is still being transmitted.
C4_DrainedWhenReturned ==
    [][\A t \in Callers :
         (pc[t] = "drain_wait" /\ pc'[t] = "returned")
             => (queue_instructions = <<>> /\ ~Transmitting)]_vars

\* the worker is sending the frame of the buffered instruction it holds
OnFrame == w.ctx = "buf" /\ pc[Worker] \in {"buf_send", "buf_mismatch", "buf_done"}

\* C5: buffered instructions go on the wire in the order of their put: while
\* the frame of B is sent, every instruction put before B has been sent or
\* has failed, whatever the devices.
C5_BufferedFifo ==
    OnFrame =>
        \A i, j \in 1..Len(enqueued) :
            (i < j /\ enqueued[j].id = w.cur.id) => enqueued[i].id \in finished

\* the frame of the second instruction is sent after the first, to another device
C5_Witness ==
    /\ OnFrame
    /\ Len(enqueued) = 2
    /\ enqueued[2].id = w.cur.id
    /\ enqueued[1].dev # enqueued[2].dev
    /\ enqueued[1].id \in finished

\* C6: a framing failure (BufferedResponseError of a frame, ResponseSizeError
\* of a buffer-status poll) does not stop the worker.
C6_WorkerSurvivesFraming ==
    ~(pc[Worker] = "dead" /\ w.exc \in {"BufferedResponseError", "ResponseSizeError"})

WorkerLeaves(label) == pc[Worker] = label /\ pc'[Worker] # label

\* C7: DeviceNotResponding does not stop the worker: the exception is caught,
\* recorded in last_exception, the instruction is gone, and the loop goes on.
C7_HandshakeFailureHandled ==
    [][/\ est'[Worker].out = "DeviceNotResponding"
            => pc'[Worker] \in {"imm_dnr_response", "buf_dnr"}
       /\ WorkerLeaves("imm_dnr_last")
            => /\ pc'[Worker] = "check_queue"
               /\ last_exception' = Exc("DeviceNotResponding", w.cur.dev)
               /\ immediate_instruction'.id # w.cur.id
       /\ WorkerLeaves("buf_dnr")
            => /\ pc'[Worker] = "set_lock"
               /\ last_exception' = Exc("DeviceNotResponding", w.cur.dev)
               /\ \A n \in 1..Len(queue_instructions') :
                      queue_instructions'[n].id # w.cur.id]_vars

\* after a DeviceNotResponding the worker services another instruction
C7_Witness ==
    /\ last_exception.kind = "DeviceNotResponding"
    /\ pc[Worker] \in {"decode", "buf_send"}
    /\ w.cur.id # 0

\* C8: establish_connection makes at most max_retries disconnect+connect
\* attempts, makes no further attempt after a correct echo, and ends with
\* DeviceNotResponding exactly when max_retries attempts were made and none
\* was echoed correctly.
C8_BoundedRetries ==
    \A t \in Threads :
        /\ est[t].att <= max_retries
        /\ est[t].echoed => (pc[t] = "conn_set" \/ est[t].out = "ok")
        /\ est[t].out # "none"
             => (est[t].out = "DeviceNotResponding"
                    <=> (est[t].att = max_retries /\ ~est[t].echoed))

\* a handshake that failed twice and was echoed on the third attempt
C8_Witness ==
    \E t \in Threads : est[t].out = "ok" /\ est[t].echoed /\ est[t].att = 3

\* C9: every address in the registry has passed a successful handshake.
C9_RegistryHandshaken ==
    \A n \in 1..Len(registered_devices) : registered_devices[n] \in handshaken

RegistrationPcs ==
    {"reg_wait_lock", "reg_append", "est_check", "disconnect", "connect",
     "conn_set", "reg_return"}

\* C10: register_device returns True exactly when establish_connection
\* succeeded and False when it ended with DeviceNotResponding, raises nothing,
\* and has set event_buffer_lock when it returns; event_buffer_lock is clear
\* only while a registration is in progress.
C10_RegisterReturns ==
    [][/\ \A t \in Callers :
            (pc[t] = "reg_return" /\ pc'[t] = "returned")
                => /\ event_buffer_lock'
                   /\ c'[t].ret = "True" <=> est[t].out = "ok"
                   /\ c'[t].ret = "False" <=> est[t].out = "DeviceNotResponding"
                   /\ c'[t].ret = "False" => est[t].att = max_retries
       /\ \A t \in Callers : pc'[t] # "raised"
       /\ ~event_buffer_lock' => \E t \in Callers : pc'[t] \in RegistrationPcs]_vars

\* a registration that used up its retries has returned False
C10_Witness ==
    \E t \in Callers :
        /\ pc[t] = "returned"
        /\ c[t].op = "register"
        /\ c[t].ret = "False"
        /\ event_buffer_lock

\* t has returned from add_immediate_instruction with the failure value False
ImmediateFailed(t) ==
    /\ pc[t] = "returned"
    /\ c[t].op = "immediate"
    /\ c[t].response = NoResponse

\* C11: when add_immediate_instruction returns a failure to its caller, the
\* exception recorded in last_exception is the DeviceNotResponding or
\* ResponseSizeError of that instruction.
C11_FailureRecorded ==
    \A t \in Callers :
        ImmediateFailed(t)
            => /\ last_exception.kind \in {"DeviceNotResponding", "ResponseSizeError"}
               /\ last_exception.dev = c[t].dev

\* C12: an immediate instruction to an address that is not registered leaves
\* the worker running and its caller unblocked: the worker is never ended by
\* DeviceNotRegistered with the caller still waiting for the response.
C12_UnregisteredSurfaces ==
    \A t \in Callers :
        ~(/\ pc[t] = "imm_wait"
          /\ pc[Worker] = "dead"
          /\ w.exc = "DeviceNotRegistered")

\* send_immediate_instruction has returned a response to run
DecodeReturned == w.ctx = "imm" /\ pc[Worker] \in {"imm_ok_response", "imm_ok_clear"}

\* the bytes received before the last one
Earlier(bytes) == 1..(Len(bytes) - 1)

\* C13: send_immediate_instruction stops reading at the first received byte
\* with the high bit set and returns the earlier non-empty bytes followed by
\* that byte with the high bit cleared; nothing is read after that byte.
C13_StopsAtHighBit ==
    /\ pc[Worker] = "decode" => \A i \in 1..Len(w.rx) : ~HighBitSet(w.rx[i])
    /\ DecodeReturned
         => /\ w.rx # <<>>
            /\ HighBitSet(w.rx[Len(w.rx)])
            /\ \A i \in Earlier(w.rx) : ~HighBitSet(w.rx[i]) /\ w.resp[i] = w.rx[i]
            /\ Len(w.resp) = Len(w.rx)
            /\ w.resp[Len(w.rx)] = w.rx[Len(w.rx)] - HIGH_BIT
            /\ w.reads = Len(w.rx) + w.nulls

\* a response of two data bytes and a terminating byte, with an empty read
C13_Witness ==
    /\ DecodeReturned
    /\ Len(w.rx) = 3
    /\ w.nulls = 1

\* C14: decoding one response never takes more than max_string_size reads
\* from the transport.
C14_AtMost32Reads == w.reads <= max_string_size

\* C15: the guard against a dead bus raises ResponseSizeError only when more
\* than max_null_count empty reads came in a row.
C15_ConsecutiveEmptyReads ==
    (pc[Worker] = "decode" /\ DecodeGuard(w.count, w.nulls) = "nulls")
        => w.run > max_null_count

\* C16: send_buffered_instruction sends LF + payload + CR one byte after the
\* other, each followed by one read; the first read that differs from the byte
\* written ends the transmission with BufferedResponseError, and no byte of the
\* instruction is sent after that.
C16_FrameAbortsOnMismatch ==
    [][/\ (pc[Worker] # "buf_send" /\ pc'[Worker] = "buf_send")
            => /\ w'.k = 1
               /\ w'.cur.id \notin finished
               /\ Frame(w'.cur.ins)[1] = LF
               /\ Frame(w'.cur.ins)[Len(w'.cur.ins) + 2] = CR
               /\ \A n \in 1..Len(w'.cur.ins) :
                      Frame(w'.cur.ins)[n + 1] = w'.cur.ins[n]
       /\ (pc[Worker] = "buf_send" /\ pc'[Worker] = "buf_send" /\ w' # w)
            => /\ w'.k = w.k + 1
               /\ w.k < Len(w.cur.ins) + 2
               /\ w'.cur = w.cur
       /\ (pc[Worker] = "buf_send" /\ pc'[Worker] # "buf_send")
            => \/ pc'[Worker] = "buf_done" /\ w.k = Len(w.cur.ins) + 2
               \/ pc'[Worker] = "buf_mismatch" /\ w'.k = w.k
       /\ (pc[Worker] = "buf_mismatch" /\ pc'[Worker] # "buf_mismatch")
            => /\ pc'[Worker] = "dead"
               /\ w'.exc = "BufferedResponseError"
               /\ w.cur.id \in finished'
       /\ pc[Worker] = "dead" => pc'[Worker] = "dead"]_vars

\* two bytes of a frame were echoed and the third was not
C16_Witness ==
    /\ pc[Worker] = "buf_mismatch"
    /\ w.k = 3

\* the worker is past the first byte of a buffered frame
FrameStarted ==
    \/ pc[Worker] = "buf_send" /\ w.k > 1
    \/ pc[Worker] \in {"buf_mismatch", "buf_done"}

\* C17: in an iteration of the worker an immediate instruction that is
\* pending is serviced to the end (its handshake, its command, its response or
\* failure) before a buffered entry is taken from the queue, and from the
\* first byte of a buffered frame to its end the bytes on the wire are those
\* of the frame.
C17_ImmediateFirst ==
    [][/\ (pc[Worker] = "check_immediate" /\ pc'[Worker] # "check_immediate")
            => IF immediate_instruction # NoInstruction
               THEN /\ pc'[Worker] = "est_check"
                    /\ w'.ctx = "imm"
                    /\ w'.cur = immediate_instruction
               ELSE pc'[Worker] = "check_queue"
       /\ (pc[Worker] = "imm_send" /\ pc'[Worker] # "imm_send")
            => w'.cur = w.cur
       /\ w.ctx = "imm" => Len(queue_instructions') >= Len(queue_instructions)
       /\ (w.ctx = "imm" /\ w'.ctx # "imm")
            => pc[Worker] \in {"imm_set_response", "imm_dnr_last"}
       /\ Len(queue_instructions') < Len(queue_instructions)
            => pc[Worker] = "check_queue" /\ w.ctx = "none"
       /\ FrameStarted
            => /\ w.ctx = "buf"
               /\ wire_owner = w.cur.id
               /\ wire_owner' = wire_owner]_vars

\* the reply to the status query that the worker has just decoded is the
\* readiness reply of the predicate: exactly '|' for 'handler', a first
\* character '0' for 'pump'
ReadyReply(wait, r) ==
    /\ wait = "handler" => r = <<CH_BAR>>
    /\ wait = "pump" => r # <<>> /\ r[1] = CH_ZERO

\* C18: the frame of a buffered instruction with the 'handler' or 'pump'
\* predicate is started only when the status query 'S' has just returned the
\* readiness reply of the predicate; after any other reply the worker sends
\* the query again and no byte of the frame.
C18_FrameAfterReady ==
    [][/\ (pc[Worker] # "buf_send" /\ pc'[Worker] = "buf_send"
                                   /\ NeedsPoll(w'.cur.wait))
            => /\ pc[Worker] = "decode"
               /\ ReadyReply(w'.cur.wait, w'.resp)
       /\ (pc[Worker] = "decode" /\ w.ctx = "buf" /\ pc'[Worker] = "poll_send")
            => ~ReadyReply(w'.cur.wait, w'.resp)
       /\ (pc[Worker] = "decode" /\ w.ctx = "buf")
            => pc'[Worker] \in {"decode", "buf_send", "poll_send", "dead"}
       /\ (w.ctx = "buf" /\ NeedsPoll(w.cur.wait) /\ pc[Worker] = "est_check")
            => pc'[Worker] \notin {"buf_send", "buf_done", "buf_mismatch"}
       /\ pc[Worker] = "poll_send" => pc'[Worker] \in {"poll_send", "decode"}]_vars

\* the frame of a 'pump' instruction starts after the reply '0|'
C18_Witness ==
    /\ pc[Worker] = "buf_send"
    /\ w.cur.wait = "pump"
    /\ w.resp = <<CH_ZERO, CH_BAR>>

\* the sufficiency check of pump (lines 981-984, 988-991) raised VolumeError
PumpCheckRaised(t) ==
    /\ c[t].op = "pump"
    /\ c[t].p.stage = "check"
    /\ pc[t] = "raised"

\* C19: when the sufficiency check of pump raises VolumeError for a probe, no
\* buffered command (set aspirate volume, set dispense volume, start) has been
\* enqueued during that call.
C19_FailFast ==
    \A t \in Callers : PumpCheckRaised(t) => enqueued = <<>>

\* pump([-150]) has read the volume 200 for probe 1 and is past line 980
PumpChecked(t, volumes, vol) ==
    /\ c[t].op = "pump"
    /\ c[t].p.stage = "check"
    /\ c[t].p.volumes = volumes
    /\ Len(c[t].p.starting_vol) = 1
    /\ c[t].p.vol = vol
    /\ pc[t] # "pump_set"

\* C20: with the volume 200 read for probe 1, pump([-150]) passes the
\* sufficiency check without VolumeError, and the volume it expects for
\* probe 1 after the operation is 50.
C20_DispenseTracked ==
    \A t \in Callers :
        PumpChecked(t, <<UL(0 - 150)>>, UL(200)) =>
            /\ pc[t] # "raised"
            /\ c[t].p.starting_vol[1] = UL(50)

\* pump(volumes) has read the volume vol for probe 1 (lines 978-979)
PumpRead(t, volumes, vol) ==
    /\ c[t].op = "pump"
    /\ c[t].p.volumes = volumes
    /\ Len(c[t].p.starting_vol) = 1
    /\ c[t].p.vol = vol

\* C21: with the volume 200 read for probe 1, pump([-250]) raises VolumeError,
\* and no buffered command has been enqueued when it does.
C21_OverdrawRaises ==
    \A t \in Callers :
        PumpRead(t, <<UL(0 - 250)>>, UL(200)) =>
            /\ PumpCheckRaised(t)
            /\ enqueued = <<>>

\* the buffered instructions the current call of thread t has enqueued
CallEntries(t) == SubSeq(enqueued, c[t].base + 1, Len(enqueued))

\* the entries of the queue history that carry the start command 'BB'
StartEntries(t) ==
    {k \in DOMAIN CallEntries(t) : CallEntries(t)[k].ins = StartCommand}
StartEntriesOf(t, device) ==
    {k \in StartEntries(t) : CallEntries(t)[k].dev = device}
SyringeDevices == {syringe_devices[k] : k \in DOMAIN syringe_devices}

\* C24: in pump, a start command 'BB' is enqueued only when the volume step
\* has completed for every probe of the list, after every set-volume command,
\* and once the start loop is over every pump device has exactly one.
C24_StartAfterVolumes ==
    \A t \in Callers :
        c[t].op = "pump" =>
            /\ StartEntries(t) # {} => c[t].p.sets = Len(c[t].p.volumes)
            /\ \A j \in StartEntries(t) :
                   \A k \in DOMAIN CallEntries(t) \ StartEntries(t) : k < j
            /\ \A d \in SyringeDevices :
                   Cardinality(StartEntriesOf(t, d)) <= 1
            /\ c[t].p.stage = "poll" =>
                   \A d \in SyringeDevices :
                       Cardinality(StartEntriesOf(t, d)) = 1

\* pump with two probes has enqueued set-volume commands and then started
\* both pump devices
C24_Witness ==
    \E t \in Callers :
        /\ c[t].op = "pump"
        /\ c[t].p.stage = "poll"
        /\ Len(c[t].p.volumes) = MaxProbes
        /\ Cardinality(StartEntries(t)) = Len(syringe_devices)
        /\ Len(CallEntries(t)) > Len(syringe_devices)

\* a round of the polling loop of pump (lines 1001-1002) has read a status
\* other than 'R'
PolledStopped(t) ==
    /\ pc[t] = "pump_poll"
    /\ c'[t] # c[t]
    /\ c'[t].p.status # CH_R

\* C25: when a round of pump's polling loop reads a status other than running,
\* pump finishes the probe if the volume read equals the expected volume and
\* raises VolumeError if it differs, whether or not 'R' was seen before.
C25_StoppedProbeSettled ==
    [][\A t \in Callers :
          PolledStopped(t) =>
              IF IntPart(c'[t].p.vol) = IntPart(c[t].p.starting_vol[c[t].p.i])
              THEN c'[t].p.i = c[t].p.i + 1
              ELSE pc'[t] = "raised"]_vars

\* the volume step of pump for one probe (lines 985-986 or 992-993) is taken
VolumeStep(t) ==
    /\ pc[t] = "pump_set"
    /\ pc'[t] # "pump_set"

\* the command letter of the last entry put on the queue
LastLetter(q) == Head(q[Len(q)].ins)

\* C27: in pump a negative entry takes the aspirate path with its absolute
\* value and a positive entry the dispense path, and the volume expected
\* after the operation is the volume read minus the signed entry.
C27_SignConvention ==
    [][\A t \in Callers :
          VolumeStep(t) =>
              LET i == c[t].p.i
                  v == c[t].p.volumes[i]
              IN  /\ c'[t].p.starting_vol[i] = c[t].p.vol - v
                  /\ enqueued' # enqueued =>
                        /\ v < 0 => LastLetter(enqueued') = CH_A
                        /\ v > 0 => LastLetter(enqueued') = CH_D
                        /\ Tail(Tail(enqueued'[Len(enqueued')].ins))
                               = FormatVolume(Abs(v))]_vars

\* pump has enqueued an aspirate command for one probe and a dispense command
\* for the other
C27_Witness ==
    \E t \in Callers :
        /\ c[t].op = "pump"
        /\ c[t].p.sets = MaxProbes
        /\ \E j, k \in DOMAIN enqueued :
              /\ Head(enqueued[j].ins) = CH_A
              /\ Head(enqueued[k].ins) = CH_D

\* a round of the loop of initialize_syringe has read that the probe, and
\* with both set also its partner, is no longer initializing
PolledInitialized(t) ==
    /\ pc[t] = "init_poll"
    /\ c'[t] # c[t]
    /\ c'[t].s.status # CH_I
    /\ c[t].s.both => c'[t].s.partner \notin {0, CH_I}

\* C26: initialize_syringe with block set returns in the round in which the
\* probe (with both set: the probe and its partner) is read as having left
\* the initializing status 'I'.
C26_ReturnsWhenInitialized ==
    [][\A t \in Callers :
          PolledInitialized(t) => pc'[t] = "returned"]_vars

\* move_to takes a round of its polling loop with the position off target
\* and sleep_counter past the timeout
TimedOutRound(t) ==
    /\ pc[t] = "move_loop"
    /\ pc'[t] # "move_loop"
    /\ OffTarget(c[t].m.sample, c[t].m.x, c[t].m.y, c[t].m.probe)
    /\ c[t].m.sleep_counter > c[t].m.timeout

\* C22: in a round of move_to past the timeout with the position off target,
\* MoveInnacuracyDetected is raised when the sample taken after the settling
\* delay is the sample taken before it; when it differs nothing is raised and
\* polling goes on, however long it has lasted; before the timeout nothing is
\* raised.
C22_StallDetection ==
    [][\A t \in Callers :
          /\ TimedOutRound(t) =>
                IF c'[t].m.resample = c[t].m.sample
                THEN /\ pc'[t] = "raised"
                     /\ c'[t].ret = "MoveInnacuracyDetected"
                ELSE /\ pc'[t] = "move_next"
                     /\ c'[t].ret = c[t].ret
          /\ (pc[t] = "move_loop" /\ ~TimedOutRound(t)) => pc'[t] # "raised"]_vars

\* move_to has commanded the move: line 548 is behind it
MoveCommanded(t) ==
    /\ c[t].op = "move_to"
    /\ pc[t] \in {"move_loop", "move_next", "returned", "raised"}

\* C23: a call of move_to enqueues exactly one buffered instruction, the
\* position command addressed to the liquid handler, and it is on the queue
\* before the polling loop queries the position.
C23_OneEntryBeforePolling ==
    \A t \in Callers :
        /\ (c[t].op = "move_to" /\ ~MoveCommanded(t)) =>
               /\ CallEntries(t) = <<>>
               /\ ~c[t].m.queried
        /\ MoveCommanded(t) =>
               /\ Len(CallEntries(t)) = 1
               /\ CallEntries(t)[1].dev = HandlerId
               /\ CallEntries(t)[1].dev \in {registered_devices[k] :
                                          k \in DOMAIN registered_devices}
               /\ CallEntries(t)[1].ins =
                      PositionCommand(c[t].m.probe, c[t].m.x, c[t].m.y)

\* the polling loop of move_to has queried the position and the call returned
C23_Witness ==
    \E t \in Callers :
        /\ c[t].op = "move_to"
        /\ c[t].m.queried
        /\ pc[t] = "returned"
        /\ Len(CallEntries(t)) = 1

\* C28: while an immediate response is decoded, an ACK is written together
\* with every read but the first of the exchange, also after an empty read,
\* and with nothing else: not before the first read and not after the
\* terminating byte.
C28_AckBeforeLaterReads ==
    [][IF w'.reads = w.reads + 1
       THEN w'.acks = w.acks + (IF w.reads = 0 THEN 0 ELSE 1)
       ELSE \/ w'.acks = w.acks
            \/ w'.acks = 0 /\ w'.reads = 0]_vars

\* a response with an empty read in it has been decoded to its terminating
\* byte
C28_Witness ==
    /\ pc[Worker] = "imm_ok_response"
    /\ w.reads >= 3
    /\ Len(w.rx) < w.reads
    /\ w.acks = w.reads - 1

\* the worker starts the frame of an instruction submitted through
\* QuadZDevice.buffered: wait is True for the liquid handler and 'pump' for a
\* syringe device (quadz.py lines 117-119)
ControllerFrameStarts ==
    /\ pc[Worker] # "buf_send"
    /\ pc'[Worker] = "buf_send"
    /\ w'.cur.wait \in {"true", "pump"}

\* C29: the frame of an instruction that QuadZDevice.buffered submitted is
\* started only when the status query has just returned '|' for the liquid
\* handler, or a reply with a leading '0' for a pump device.
C29_ControllerFrameAfterReady ==
    [][ControllerFrameStarts =>
          /\ pc[Worker] = "decode"
          /\ w'.cur.dev = HandlerId => w'.resp = <<CH_BAR>>
          /\ w'.cur.dev # HandlerId =>
                 /\ w'.resp # <<>>
                 /\ w'.resp[1] = CH_ZERO]_vars

\* every buffered instruction put on the queue has been transmitted or has
\* failed, the last one with DeviceNotResponding, and the worker is back at
\* event_instruction.wait() with nothing pending
BufferedAllDone ==
    /\ enqueued # <<>>
    /\ queue_instructions = <<>>
    /\ \A k \in DOMAIN enqueued : enqueued[k].id \in finished
    /\ last_exception =
           Exc("DeviceNotResponding", enqueued[Len(enqueued)].dev)
    /\ immediate_instruction = NoInstruction
    /\ pc[Worker] = "wait_instruction"
    /\ ~event_instruction

\* caller t waits in wait_for_buffered on an event that is clear, and no
\* other caller is inside a call
DrainBlocked(t) ==
    /\ pc[t] = "drain_wait"
    /\ ~event_buffered
    /\ \A u \in Callers \ {t} : pc[u] = "idle"

\* C30: a caller in wait_for_buffered is released once every queued buffered
\* instruction has been transmitted or has failed, also when the last one
\* failed with DeviceNotResponding: it is never left waiting on the cleared
\* event with all of them done and the worker asleep.
C30_DrainReleased ==
    \A t \in Callers : ~(BufferedAllDone /\ DrainBlocked(t))

\* the worker sleeps at event_instruction.wait() (line 106) with the event
\* clear, and no caller is inside a call that would set it
WorkerAsleep ==
    /\ pc[Worker] = "wait_instruction"
    /\ ~event_instruction
    /\ \A t \in Callers : pc[t] \in {"idle", "returned", "drain_wait"}

\* C31: the worker never clears event_instruction and goes to sleep while the
\* buffered queue is non-empty or an immediate instruction is pending, so
\* every accepted buffered instruction is dequeued without a further
\* submission.
C31_NoSleepWithWork ==
    WorkerAsleep =>
        /\ queue_instructions = <<>>
        /\ immediate_instruction = NoInstruction

\* the instructions whose command has been written to the transport
SentIds == wire_closed \cup {wire_owner}

\* C40: a call of add_immediate_instruction that returns a response returns
\* the response decoded for its own instruction: its instruction was not
\* overwritten in the slot but has been sent.
C40_OwnResponse ==
    \A t \in Callers :
        (pc[t] = "returned" /\ c[t].ret = "response" /\ c[t].response.set)
            => c[t].id \in SentIds

\* the last sample read back matches the target on both axes
OnTarget(t) ==
    /\ c[t].m.sample.probe_x[c[t].m.probe] = c[t].m.x
    /\ c[t].m.sample.Y = Digits(c[t].m.y)

\* C32: move_to returns normally only when the last position read back
\* matches the target on both axes, the reference probe's x and the y.
C32_ReturnsOnTarget ==
    \A t \in Callers :
        (pc[t] = "returned" /\ c[t].op = "move_to") => OnTarget(t)

\* the height move_probe is to command for its argument z
CommandedZ(t) == c[t].z.z + 300

\* the commands of one call of move_probe: one z command for every listed
\* probe, in the order of the list, then the start command
ProbeCommands(t) ==
    [k \in 1..(Len(c[t].z.probes) + 1) |->
        IF k <= Len(c[t].z.probes)
        THEN ProbeZCommand(c[t].z.probes[k], CommandedZ(t))
        ELSE StartMoveCommand]

\* the listed probes whose z is unchanged across the settling delay and is
\* not the commanded z
StalledProbes(t, z_positions, new_z_positions) ==
    {c[t].z.probes[k] : k \in 1..Len(c[t].z.probes)} \cap
    {probe \in ZProbes : /\ z_positions[probe] = new_z_positions[probe]
                         /\ new_z_positions[probe] # CommandedZ(t)}

\* move_probe without liquid sensing has commanded the probes
ProbeMoveStarted(t) ==
    /\ c[t].op = "move_probe"
    /\ ~c[t].z.liquid_sensing
    /\ pc[t] \in {"probe_poll", "probe_settle", "returned", "raised"}

\* C33: move_probe(z, probes) commands every listed probe to z plus
\* (base_z + base_tip_height + current_tip_height) * 10, returns only when
\* every listed probe reads back that z, and past the timeout raises
\* MoveInnacuracyDetected exactly when some listed probe's z is unchanged
\* across the settling delay and is not the commanded z, naming those probes
\* only.
C33_MoveProbe ==
    [][\A t \in Callers :
          /\ ProbeMoveStarted(t)' =>
                [k \in 1..Len(CallEntries(t)') |->
                    CallEntries(t)'[k].ins] = ProbeCommands(t)'
          /\ (pc'[t] = "returned" /\ c'[t].op = "move_probe") =>
                \A k \in 1..Len(c'[t].z.probes) :
                    c'[t].z.z_positions[c'[t].z.probes[k]] = CommandedZ(t)'
          /\ pc[t] = "probe_settle" =>
                /\ pc'[t] = "raised" <=>
                      StalledProbes(t, c[t].z.z_positions,
                                    c'[t].z.new_z_positions) # {}
                /\ pc'[t] = "raised" =>
                      /\ c'[t].ret = "MoveInnacuracyDetected"
                      /\ {c'[t].z.failed_list[k] :
                             k \in 1..Len(c'[t].z.failed_list)} =
                         StalledProbes(t, c[t].z.z_positions,
                                       c'[t].z.new_z_positions)
          /\ (pc[t] = "probe_poll" /\ ~c[t].z.liquid_sensing) =>
                pc'[t] # "raised"]_vars

\* move_probe has raised for two listed probes and names one of them: the
\* other one's z changed across the settling delay
C33_Witness ==
    \E t \in Callers :
        /\ pc[t] = "raised"
        /\ c[t].op = "move_probe"
        /\ c[t].ret = "MoveInnacuracyDetected"
        /\ Len(c[t].z.probes) = 2
        /\ Len(c[t].z.failed_list) = 1

\* the sufficiency check of pump for one probe is taken (lines 978-991)
SufficiencyCheck(t) ==
    /\ pc[t] = "pump_check"
    /\ pc'[t] # "pump_check"

\* C34: for an aspirating entry pump raises VolumeError exactly when the
\* syringe size minus the current volume is smaller than the amount to
\* aspirate; for a dispensing entry exactly when the current volume is
\* smaller than the amount to dispense.
C34_HeadroomCheck ==
    [][\A t \in Callers :
          SufficiencyCheck(t) =>
              LET v == c[t].p.volumes[c[t].p.i]
                  vol == c'[t].p.vol
              IN  pc'[t] = "raised" <=>
                      IF v > 0 THEN vol < v
                               ELSE syringe_size - vol < Abs(v)]_vars

\* C35: for every probe that passes the sufficiency check, the volume step of
\* pump enqueues that probe's set-volume command ('A' or 'D', the side letter
\* and the volume), whatever the requested and the current volume are.
C35_SetVolumeEnqueued ==
    [][\A t \in Callers :
          VolumeStep(t) =>
              LET i == c[t].p.i
                  v == c[t].p.volumes[i]
              IN  /\ Len(enqueued') = Len(enqueued) + 1
                  /\ enqueued'[Len(enqueued')].ins =
                        SetVolumeCommand(IF v > 0 THEN CH_D ELSE CH_A,
                                         i, Abs(v))]_vars

\* a round of the polling loop of pump finishes the probe it polls
ProbeFinished(t) ==
    /\ pc[t] = "pump_poll"
    /\ \/ pc'[t] = "returned"
       \/ c'[t].p.i = c[t].p.i + 1

\* C36: pump stops polling a probe only on a status sample other than the
\* running code 'R'.
C36_NoFinishWhileRunning ==
    [][\A t \in Callers : ProbeFinished(t) => c'[t].p.status # CH_R]_vars

\* the probe on the given side of the pump with the given device id
ProbeOn(device_id, side) ==
    CHOOSE probe \in Probes : /\ syringe[probe].device_id = device_id
                              /\ syringe[probe].side = side

\* a status query through probe_num has returned in this step
QueryReturns(t, op) ==
    /\ pc[t] \in {"status_query", "valve_query"}
    /\ c[t].op = op
    /\ pc'[t] = "returned"

\* C37: get_syringe_pump_status and get_valve_status, queried through either
\* probe of a pump, write the left field of the response to the entry of the
\* pump's left probe and the right field to the entry of its right probe,
\* change nothing else, and return the field of the queried probe's side.
C37_SidesResolved ==
    [][\A t \in Callers :
          LET probe_num == c[t].q.probe_num
              pl == ProbeOn(SyringeDevice(probe_num), "left")
              pr == ProbeOn(SyringeDevice(probe_num), "right")
              status == c'[t].q.status_response
              valve == c'[t].q.valve_response
          IN  /\ QueryReturns(t, "get_syringe_pump_status") =>
                    /\ syringe' = [syringe EXCEPT
                           ![pl].status = status.left,
                           ![pl].current_volume = StrValue(status.lvol),
                           ![pr].status = status.right,
                           ![pr].current_volume = StrValue(status.rvol)]
                    /\ c'[t].q.result =
                           IF probe_num = pr
                           THEN <<status.right, ParseVolume(status.rvol)>>
                           ELSE <<status.left, ParseVolume(status.lvol)>>
              /\ QueryReturns(t, "get_valve_status") =>
                    /\ syringe' = [syringe EXCEPT
                           ![pl].valve_status = valve[1],
                           ![pr].valve_status = valve[2]]
                    /\ c'[t].q.result =
                           <<valve[IF probe_num = pr THEN 2 ELSE 1]>>]_vars

\* a status query through the right probe of pump 0 has returned the right
\* field, and the entry of the left probe holds the left field
C37_Witness ==
    \E t \in Callers :
        /\ pc[t] = "returned"
        /\ c[t].op = "get_syringe_pump_status"
        /\ c[t].q.probe_num = 2
        /\ c[t].q.result[1] = c[t].q.status_response.right
        /\ syringe[1].status = c[t].q.status_response.left
        /\ syringe[1].status # syringe[2].status

\* a step in which a status query returns the fields of a parsed response
ParsedStatus ==
    \E t \in Callers :
        /\ pc[t] \in {"status_query", "valve_query"}
        /\ pc'[t] = "returned"

\* C38: the cached per-probe pump state changes only in a step that has
\* parsed a device response: a setter whose command is only enqueued and an
\* operation that fails leave every cached field as it was.
C38_CacheAfterParse ==
    [][syringe' # syringe => ParsedStatus]_vars

\* the worker writes a payload byte: the command of an immediate instruction
\* (line 126), a buffer-status poll (lines 152, 156) or a byte of a buffered
\* frame (line 164)
PayloadWrite ==
    /\ pc[Worker] \in {"imm_send", "poll_send", "buf_send"}
    /\ pc'[Worker] # pc[Worker] \/ w' # w

\* a connect attempt of thread t fails, or its retries are exhausted
ConnectFails(t) ==
    /\ pc[t] = "connect"
    /\ pc'[t] \in {"disconnect", "imm_dnr_response", "buf_dnr", "reg_return"}
    /\ est'[t].out \in {"none", "DeviceNotResponding"}

\* C39: when a payload byte of an instruction is written, connected_device is
\* the instruction's target address and that address has been echoed by the
\* bus; connected_device is None after a failed connect attempt and after the
\* retries are exhausted; and it changes only inside connect and disconnect.
C39_ConnectedToTarget ==
    [][/\ PayloadWrite =>
             /\ connected_device = w'.cur.dev
             /\ w'.cur.dev \in handshaken
       /\ \A t \in Threads : ConnectFails(t) => connected_device' = NONE
       /\ connected_device' # connected_device =>
             \E t \in Threads : pc[t] \in {"disconnect", "conn_set"}]_vars

====
